---- MODULE Spec2Model ----
(***************************************************************************)
(* A model of the checkout.md credential wallet: the policy engine, the    *)
(* policy loader's query side, the audit logger, the token store and the   *)
(* tool handlers request_credential / report_usage that sequence them.     *)
(*                                                                         *)
(* Conventions.                                                            *)
(*  - An optional string (undefined in the source) is the string Undef.    *)
(*  - An optional number is a set: {} for undefined, {n} for the number n. *)
(*  - An optional string list (grant_to.agent_id, deny, actions) is a set  *)
(*    of strings; the set Unset stands for an absent field.  A single      *)
(*    string s of the source (grant_to.agent_id: "a") is the set {s}, as   *)
(*    the source itself turns it into [s] before looking into it.          *)
(*  - A reason is the tag of the message template the source fills in.     *)
(*  - Time is in milliseconds, as Date.now(); an ISO timestamp is modelled *)
(*    by the millisecond value it prints, and its YYYY-MM prefix by        *)
(*    MonthOf.                                                             *)
(***************************************************************************)
EXTENDS Integers, Sequences, FiniteSets, TLC

VARIABLES
    engIn,      \* arguments of the engine call under test (engine specification)
    engOut,     \* what that call returned
    now,        \* Date.now()
    policies,   \* PolicyLoader.policies, in insertion order
    vault,      \* the credentials table as getCredential sees it: name -> value
    tokens,     \* TokenStore.tokens: token_id -> ScopedToken
    nextToken,  \* the next token_id randomUUID() hands out
    issued,     \* history: every token as issue() returned it, by token_id
    audit,      \* the audit_log table, in id order
    resp        \* the last tool call: its arguments, what it did and returned

vars == <<engIn, engOut, now, policies, vault, tokens, nextToken, issued, audit, resp>>

Undef == "<undefined>"
Unset == {"<unset>"}
Wildcard == "*"

Has(o) == o # {}
Val(o) == CHOOSE x \in o : TRUE

----------------------------------------------------------------------------
(* Bounds of the model *)

MaxAmount == 3          \* request amounts range over 0..MaxAmount
MaxSpent == 2           \* injected monthly spending ranges over 0..MaxSpent
MaxPolicies == 2        \* longest policy list handed to evaluateFirst

(* The values requests and policies are built from *)

Agents == {"a1", "a2"}
Skills == {"s1", "s2"}
Actions == {"charge", "delete"}
Purposes == {"deploy to production", "random task"}
CredNames == {"c1", "c2"}
Amounts == {{}} \cup {{n} : n \in 0..MaxAmount}

----------------------------------------------------------------------------
(* The condition language.  The source hands policy.condition to the       *)
(* cel-js evaluator; the model knows four expressions and what the         *)
(* evaluator makes of them.                                                *)

CondDeploy == "purpose.contains(\"deploy\")"
CondAmount == "amount"            \* evaluates to a number, never to true
CondBroken == "nosuchvar > 1"     \* the evaluator throws

celContext(request) ==
    [ agent_id |-> request.agent_id,
      skill_id |-> IF request.skill_id = Undef THEN "" ELSE request.skill_id,
      purpose  |-> request.purpose,
      amount   |-> IF Has(request.amount) THEN Val(request.amount) ELSE 0,
      currency |-> IF request.currency = Undef THEN "" ELSE request.currency,
      action   |-> IF request.action = Undef THEN "" ELSE request.action ]

\* "true", "false", "number" or "throws"
celEvaluate(condition, ctx) ==
    CASE condition = CondDeploy ->
            IF ctx.purpose = "deploy to production" THEN "true" ELSE "false"
      [] condition = CondAmount -> "number"
      [] OTHER -> "throws"

----------------------------------------------------------------------------
(* PolicyEngine *)

Result(decision, reason, policy_name, scope) ==
    [ decision |-> decision, reason |-> reason,
      policy_name |-> policy_name, scope |-> scope ]

\* the conditions of the eight checks, engine.ts lines 22, 31-34, 44-48,
\* 58-59, 69-70, 80-82, 92-93 and 104-116
isDenied(policy, request) ==
    policy.deny # Unset /\ request.agent_id \in policy.deny

agentNotGranted(policy, request) ==
    /\ policy.grant_agent # Unset
    /\ Wildcard \notin policy.grant_agent
    /\ request.agent_id \notin policy.grant_agent

skillNotGranted(policy, request) ==
    /\ request.skill_id # Undef
    /\ policy.grant_skill # Unset
    /\ Wildcard \notin policy.grant_skill
    /\ request.skill_id \notin policy.grant_skill

actionNotAllowed(policy, request) ==
    /\ policy.actions # Unset
    /\ request.action # Undef
    /\ request.action \notin policy.actions

overTransaction(policy, request) ==
    /\ Has(policy.max_per_transaction)
    /\ Has(request.amount)
    /\ Val(request.amount) > Val(policy.max_per_transaction)

\* a monthly check that also rejects a request that lands on the limit
overMonth_Exclusive(policy, request, monthlySpending) ==
    /\ Has(policy.max_per_month)
    /\ Has(request.amount)
    /\ monthlySpending + Val(request.amount) >= Val(policy.max_per_month)

overMonth(policy, request, monthlySpending) ==
    /\ Has(policy.max_per_month)
    /\ Has(request.amount)
    /\ monthlySpending + Val(request.amount) > Val(policy.max_per_month)

overThreshold(policy, request) ==
    /\ Has(policy.approval_threshold)
    /\ Has(request.amount)
    /\ Val(request.amount) > Val(policy.approval_threshold)

conditionResult(policy, request) ==
    IF policy.condition = Undef THEN "true"
    ELSE celEvaluate(policy.condition, celContext(request))

\* evaluate with the grant check ahead of the deny list (the order its doc
\* comment gives), otherwise unchanged
evaluate_GrantFirst(policy, request, monthlySpending) ==
    IF agentNotGranted(policy, request)
    THEN Result("deny", "agent not granted", policy.name, Undef)
    ELSE IF isDenied(policy, request)
    THEN Result("deny", "explicitly denied", policy.name, Undef)
    ELSE IF skillNotGranted(policy, request)
    THEN Result("deny", "skill not granted", policy.name, Undef)
    ELSE IF actionNotAllowed(policy, request)
    THEN Result("deny", "action not allowed", policy.name, Undef)
    ELSE IF overTransaction(policy, request)
    THEN Result("deny", "exceeds max per transaction", policy.name, Undef)
    ELSE IF overMonth(policy, request, monthlySpending)
    THEN Result("deny", "would exceed monthly budget", policy.name, Undef)
    ELSE IF overThreshold(policy, request)
    THEN Result("require_approval", "exceeds approval threshold",
                policy.name, policy.scope)
    ELSE IF conditionResult(policy, request) = "throws"
    THEN Result("deny", "CEL evaluation error", policy.name, Undef)
    ELSE IF conditionResult(policy, request) # "true"
    THEN Result("deny", "CEL condition", policy.name, Undef)
    ELSE Result("allow", "All policy checks passed.", policy.name, policy.scope)

evaluate(policy, request, monthlySpending) ==
    IF isDenied(policy, request)
    THEN Result("deny", "explicitly denied", policy.name, Undef)
    ELSE IF agentNotGranted(policy, request)
    THEN Result("deny", "agent not granted", policy.name, Undef)
    ELSE IF skillNotGranted(policy, request)
    THEN Result("deny", "skill not granted", policy.name, Undef)
    ELSE IF actionNotAllowed(policy, request)
    THEN Result("deny", "action not allowed", policy.name, Undef)
    ELSE IF overTransaction(policy, request)
    THEN Result("deny", "exceeds max per transaction", policy.name, Undef)
    ELSE IF overMonth(policy, request, monthlySpending)
    THEN Result("deny", "would exceed monthly budget", policy.name, Undef)
    ELSE IF overThreshold(policy, request)
    THEN Result("require_approval", "exceeds approval threshold",
                policy.name, policy.scope)
    ELSE IF conditionResult(policy, request) = "throws"
    THEN Result("deny", "CEL evaluation error", policy.name, Undef)
    ELSE IF conditionResult(policy, request) # "true"
    THEN Result("deny", "CEL condition", policy.name, Undef)
    ELSE Result("allow", "All policy checks passed.", policy.name, policy.scope)

Pending == Result("pending", "", Undef, Undef)

matchingPolicies(ps, request) ==
    LET Match(p) == p.credential = request.credential_name
    IN  SelectSeq(ps, Match)

RECURSIVE firstDecided(_, _, _, _)
\* the loop of evaluateFirst from candidate i on: the index of the first
\* candidate that does not deny, 0 when the loop runs to its end
firstDecided(matching, request, monthlySpending, i) ==
    IF i > Len(matching) THEN 0
    ELSE IF evaluate(matching[i], request, monthlySpending).decision
              \in {"allow", "require_approval"}
         THEN i
         ELSE firstDecided(matching, request, monthlySpending, i + 1)

\* evaluateFirst that goes on to later candidates after a require_approval and
\* returns it only when no candidate allows
evaluateFirst_ApprovalNotTerminal(ps, request, monthlySpending) ==
    LET matching == matchingPolicies(ps, request)
        allows == {i \in 1..Len(matching) :
                     evaluate(matching[i], request, monthlySpending).decision = "allow"}
        hit == firstDecided(matching, request, monthlySpending, 1)
    IN  IF Len(matching) = 0
        THEN Result("deny", "No policy found", Undef, Undef)
        ELSE IF allows # {}
        THEN evaluate(matching[CHOOSE i \in allows : \A j \in allows : i <= j],
                      request, monthlySpending)
        ELSE IF hit # 0
        THEN evaluate(matching[hit], request, monthlySpending)
        ELSE evaluate(matching[Len(matching)], request, monthlySpending)

\* evaluateFirst that stops at the first candidate, whatever it decides
evaluateFirst_FirstOnly(ps, request, monthlySpending) ==
    LET matching == matchingPolicies(ps, request)
    IN  IF Len(matching) = 0
        THEN Result("deny", "No policy found", Undef, Undef)
        ELSE evaluate(matching[1], request, monthlySpending)

evaluateFirst(ps, request, monthlySpending) ==
    LET matching == matchingPolicies(ps, request)
        hit == firstDecided(matching, request, monthlySpending, 1)
    IN  IF Len(matching) = 0
        THEN Result("deny", "No policy found", Undef, Undef)
        ELSE IF hit # 0
        THEN evaluate(matching[hit], request, monthlySpending)
        ELSE evaluate(matching[Len(matching)], request, monthlySpending)

----------------------------------------------------------------------------
(* PolicyLoader: the query side.  policies is the Map in insertion order.  *)

listPolicies(ps) == ps

getPolicy(ps, name) ==
    LET hits == {i \in 1..Len(ps) : ps[i].name = name}
    IN  IF hits = {} THEN {} ELSE {ps[CHOOSE i \in hits : TRUE]}

\* a pre-filter that takes "*" for an agent's name
listPoliciesForAgent_NoWildcard(ps, agentId, skillId) ==
    LET Keep(policy) ==
            /\ ~(policy.deny # Unset /\ agentId \in policy.deny)
            /\ ~(/\ policy.grant_agent # Unset
                 /\ agentId \notin policy.grant_agent)
            /\ ~(/\ skillId # Undef
                 /\ policy.grant_skill # Unset
                 /\ Wildcard \notin policy.grant_skill
                 /\ skillId \notin policy.grant_skill)
    IN  SelectSeq(listPolicies(ps), Keep)

listPoliciesForAgent(ps, agentId, skillId) ==
    LET Keep(policy) ==
            /\ ~(policy.deny # Unset /\ agentId \in policy.deny)
            /\ ~(/\ policy.grant_agent # Unset
                 /\ Wildcard \notin policy.grant_agent
                 /\ agentId \notin policy.grant_agent)
            /\ ~(/\ skillId # Undef
                 /\ policy.grant_skill # Unset
                 /\ Wildcard \notin policy.grant_skill
                 /\ skillId \notin policy.grant_skill)
    IN  SelectSeq(listPolicies(ps), Keep)

----------------------------------------------------------------------------
(* Clock.  The model samples Date.now() at a few instants around the two   *)
(* token lifetimes it uses (1 s and the default 300 s); the calendar month *)
(* of a timestamp is scaled down so that a month boundary is among them.   *)

MaxSmallSec == 0        \* instants sampled: 0..MaxSmallSec s and 300..300+MaxSmallSec s

ClockValues ==
    {s * 1000 : s \in 0..MaxSmallSec} \cup {(300 + s) * 1000 : s \in 0..MaxSmallSec}

MonthMs == 300 * 1000

\* new Date(ts).toISOString().slice(0, 7)
MonthOf(ts) == ts \div MonthMs

----------------------------------------------------------------------------
(* Vault: the key held in memory and the credentials table.  A derived key *)
(* is the pair it is derived from; a ciphertext is the plaintext together  *)
(* with the key that encrypted it, and decrypts under that key only.       *)

NoKey == [pass |-> Undef, salt |-> Undef]

deriveKey(passphrase, salt) == [pass |-> passphrase, salt |-> salt]

encrypt(plaintext, key) == [plain |-> plaintext, key |-> key]

\* decrypt that hands back bytes whatever the key is
decrypt_NoAuth(payload, key) ==
    IF payload.key = key THEN [ok |-> TRUE, value |-> payload.plain]
    ELSE [ok |-> TRUE, value |-> "garbage"]

\* the plaintext, or "throws" when GCM authentication fails
decrypt(payload, key) ==
    IF payload.key = key THEN [ok |-> TRUE, value |-> payload.plain]
    ELSE [ok |-> FALSE, value |-> Undef]

\* what a vault method answers when it throws
Thrown(kind) == [status |-> "throws", error |-> kind, name |-> Undef, value |-> Undef]

\* getCredential that builds a credential from a row that is not there
getCredential_MissingRowOk(v, name) ==
    IF v.key = NoKey THEN Thrown("VaultLocked")
    ELSE IF v.closed THEN Thrown("DatabaseClosed")
    ELSE IF name \notin DOMAIN v.creds
    THEN [status |-> "ok", error |-> Undef, name |-> name, value |-> Undef]
    ELSE IF ~decrypt(v.creds[name], v.key).ok
    THEN Thrown("AuthenticationFailed")
    ELSE [status |-> "ok", error |-> Undef, name |-> name,
          value |-> decrypt(v.creds[name], v.key).value]

\* status "ok" with the credential, "null" for a missing row, "throws" when
\* the vault is locked, the database is closed or decryption fails
getCredential(v, name) ==
    IF v.key = NoKey THEN Thrown("VaultLocked")
    ELSE IF v.closed THEN Thrown("DatabaseClosed")
    ELSE IF name \notin DOMAIN v.creds
    THEN [status |-> "null", error |-> Undef, name |-> Undef, value |-> Undef]
    ELSE IF ~decrypt(v.creds[name], v.key).ok
    THEN Thrown("AuthenticationFailed")
    ELSE [status |-> "ok", error |-> Undef, name |-> name,
          value |-> decrypt(v.creds[name], v.key).value]

\* the summaries listCredentials returns: the columns it SELECTs (name stands
\* for them; encrypted_data, iv and auth_tag are not among them)
listCredentials(v) ==
    IF v.key = NoKey THEN [status |-> "throws", error |-> "VaultLocked", rows |-> {}]
    ELSE IF v.closed THEN [status |-> "throws", error |-> "DatabaseClosed", rows |-> {}]
    ELSE [status |-> "ok", error |-> Undef, rows |-> {[name |-> n] : n \in DOMAIN v.creds}]

\* addCredential without ensureUnlocked
addCredential_NoLock(v, name, value) ==
    IF v.closed THEN [creds |-> v.creds, status |-> "throws", error |-> "DatabaseClosed"]
    ELSE IF name \in DOMAIN v.creds
    THEN [creds |-> v.creds, status |-> "throws", error |-> "Constraint"]
    ELSE [creds |-> [n \in DOMAIN v.creds \cup {name} |->
                        IF n = name THEN encrypt(value, v.key) ELSE v.creds[n]],
          status |-> "ok", error |-> Undef]

\* addCredential: the stored rows after the call and what it answers; the
\* INSERT fails on the UNIQUE constraint of credentials.name
addCredential(v, name, value) ==
    IF v.key = NoKey THEN [creds |-> v.creds, status |-> "throws", error |-> "VaultLocked"]
    ELSE IF v.closed THEN [creds |-> v.creds, status |-> "throws", error |-> "DatabaseClosed"]
    ELSE IF name \in DOMAIN v.creds
    THEN [creds |-> v.creds, status |-> "throws", error |-> "Constraint"]
    ELSE [creds |-> [n \in DOMAIN v.creds \cup {name} |->
                        IF n = name THEN encrypt(value, v.key) ELSE v.creds[n]],
          status |-> "ok", error |-> Undef]

\* removeCredential that always answers true
removeCredential_AlwaysTrue(v, name) ==
    IF v.key = NoKey
    THEN [creds |-> v.creds, status |-> "throws", error |-> "VaultLocked", removed |-> FALSE]
    ELSE IF v.closed
    THEN [creds |-> v.creds, status |-> "throws", error |-> "DatabaseClosed", removed |-> FALSE]
    ELSE [creds |-> [n \in DOMAIN v.creds \ {name} |-> v.creds[n]],
          status |-> "ok", error |-> Undef, removed |-> TRUE]

\* removeCredential: DELETE by name, result.changes > 0
removeCredential(v, name) ==
    IF v.key = NoKey
    THEN [creds |-> v.creds, status |-> "throws", error |-> "VaultLocked", removed |-> FALSE]
    ELSE IF v.closed
    THEN [creds |-> v.creds, status |-> "throws", error |-> "DatabaseClosed", removed |-> FALSE]
    ELSE [creds |-> [n \in DOMAIN v.creds \ {name} |-> v.creds[n]],
          status |-> "ok", error |-> Undef, removed |-> name \in DOMAIN v.creds]

----------------------------------------------------------------------------
(* AuditLogger.  A text column holds a "string": plain text, or the JSON   *)
(* text of an object with an amount.                                        *)

NoText == [kind |-> "null", text |-> Undef, amount |-> {}, currency |-> Undef,
           details |-> Undef]

\* a details string of a caller that is itself the JSON text of an object
\* with an amount
AmountJson == "{\"amount\":2}"

\* a caller's string stored as it is; kind and amount say what JSON.parse
\* makes of it: most strings do not parse, AmountJson parses to {amount: 2}
PlainText(t) ==
    IF t = AmountJson THEN [NoText EXCEPT !.kind = "json", !.text = t, !.amount = {2}]
    ELSE [NoText EXCEPT !.kind = "text", !.text = t]

\* JSON.stringify({amount, currency, details}); an undefined member is left out
stringifyUsage(amount, currency, details) ==
    [NoText EXCEPT !.kind = "json", !.amount = {amount}, !.currency = currency,
                   !.details = details]

\* JSON.stringify of a scope object / JSON.parse of that text
stringifyScope(scope) == <<"json", scope>>
parseScope(text) == text[2]

NoEntry ==
    [ id |-> 0, timestamp |-> 0, event |-> Undef, policy |-> Undef,
      agent_id |-> Undef, skill_id |-> Undef, purpose |-> Undef, token_id |-> 0,
      credential_name |-> Undef, scope |-> Undef, outcome |-> Undef,
      details |-> NoText ]

\* a falsy timestamp: undefined or the empty string
NoTime == -1

\* log that stores the timestamp as the caller gave it
log_NoTimestampDefault(a, e, t) ==
    Append(a, [ id |-> Len(a) + 1,
                timestamp |-> e.timestamp,
                event |-> e.event,
                policy |-> e.policy,
                agent_id |-> e.agent_id,
                skill_id |-> e.skill_id,
                purpose |-> e.purpose,
                token_id |-> e.token_id,
                credential_name |-> e.credential_name,
                scope |-> IF e.scope # Undef THEN stringifyScope(e.scope) ELSE <<>>,
                outcome |-> e.outcome,
                details |-> e.details ])

\* the row INSERTed for entry e by a call at time t; token_id 0 and Undef
\* stand for NULL, and AUTOINCREMENT numbers the rows 1, 2, ...
log(a, e, t) ==
    Append(a, [ id |-> Len(a) + 1,
                timestamp |-> IF e.timestamp = NoTime THEN t ELSE e.timestamp,
                event |-> e.event,
                policy |-> e.policy,
                agent_id |-> e.agent_id,
                skill_id |-> e.skill_id,
                purpose |-> e.purpose,
                token_id |-> e.token_id,
                credential_name |-> e.credential_name,
                scope |-> IF e.scope # Undef THEN stringifyScope(e.scope) ELSE <<>>,
                outcome |-> e.outcome,
                details |-> e.details ])

\* a sum that reads the amount of entries of every event
RECURSIVE sumAmounts_AnyEvent(_, _, _, _)
sumAmounts_AnyEvent(a, credentialName, targetMonth, i) ==
    IF i > Len(a) THEN 0
    ELSE (IF /\ a[i].credential_name = credentialName
             /\ MonthOf(a[i].timestamp) = targetMonth
             /\ a[i].details.kind = "json"
             /\ Has(a[i].details.amount)
          THEN Val(a[i].details.amount) ELSE 0)
         + sumAmounts_AnyEvent(a, credentialName, targetMonth, i + 1)

RECURSIVE sumAmounts(_, _, _, _)
sumAmounts(a, credentialName, targetMonth, i) ==
    IF i > Len(a) THEN 0
    ELSE (IF /\ a[i].event = "credential_used"
             /\ a[i].credential_name = credentialName
             /\ MonthOf(a[i].timestamp) = targetMonth
             /\ a[i].details.kind = "json"
             /\ Has(a[i].details.amount)
          THEN Val(a[i].details.amount) ELSE 0)
         + sumAmounts(a, credentialName, targetMonth, i + 1)

getMonthlySpending(a, credentialName, targetMonth) ==
    sumAmounts(a, credentialName, targetMonth, 1)

\* a falsy month argument: undefined or the empty string
NoMonth == -1

\* month || new Date().toISOString().slice(0, 7)
targetMonthOf(month, t) == IF month = NoMonth THEN MonthOf(t) ELSE month

NoFilters == [event |-> Undef, policy |-> Undef, agent_id |-> Undef,
              since |-> NoTime, limit |-> {}]

\* the WHERE clause query builds: a condition for every truthy filter
matches(row, filters) ==
    /\ filters.event # Undef => row.event = filters.event
    /\ filters.policy # Undef => row.policy = filters.policy
    /\ filters.agent_id # Undef => row.agent_id = filters.agent_id
    /\ filters.since # NoTime => row.timestamp >= filters.since

\* the LIMIT clause: present for a truthy limit only
hasLimit(filters) == Has(filters.limit) /\ Val(filters.limit) # 0

\* the entry query returns for a row
rowToEntry(row) ==
    [row EXCEPT !.scope = IF row.scope # <<>> THEN parseScope(row.scope) ELSE Undef]

Reverse(seq) == [i \in 1..Len(seq) |-> seq[Len(seq) + 1 - i]]

\* SELECT * FROM audit_log WHERE ... ORDER BY id DESC LIMIT ..., row by row
query(a, filters) ==
    LET Keep(row) == matches(row, filters)
        newestFirst == Reverse(SelectSeq(a, Keep))
        rows == IF hasLimit(filters) /\ Val(filters.limit) < Len(newestFirst)
                THEN SubSeq(newestFirst, 1, Val(filters.limit))
                ELSE newestFirst
    IN  [i \in 1..Len(rows) |-> rowToEntry(rows[i])]

----------------------------------------------------------------------------
(* TokenStore *)

NoTokens == [t \in {} |-> NoEntry]

\* issue that stamps expires_at without adding the lifetime
issue_NoLifetime(params, t, id) ==
    [ token_id |-> id,
      credential_name |-> params.credential_name,
      credential_value |-> params.credential_value,
      policy_name |-> params.policy_name,
      agent_id |-> params.agent_id,
      skill_id |-> params.skill_id,
      scope |-> IF params.scope = Undef THEN "{}" ELSE params.scope,
      issued_at |-> t,
      expires_at |-> t,
      used |-> FALSE ]

\* the token issue() builds at time t under the id randomUUID() returned
issue(params, t, id) ==
    [ token_id |-> id,
      credential_name |-> params.credential_name,
      credential_value |-> params.credential_value,
      policy_name |-> params.policy_name,
      agent_id |-> params.agent_id,
      skill_id |-> params.skill_id,
      scope |-> IF params.scope = Undef THEN "{}" ELSE params.scope,
      issued_at |-> t,
      expires_at |-> t + (IF Has(params.ttl) THEN Val(params.ttl) ELSE 300) * 1000,
      used |-> FALSE ]

drop(store, ids) == [t \in DOMAIN store \ ids |-> store[t]]

\* get that returns a stored token whatever the time
get_IgnoresExpiry(store, tokenId, t) ==
    IF tokenId \notin DOMAIN store THEN {}
    ELSE {store[tokenId]}

\* get that lets a token resolve at the very instant it expires
get_StrictlyAfter(store, tokenId, t) ==
    IF tokenId \notin DOMAIN store THEN {}
    ELSE IF t > store[tokenId].expires_at THEN {}
    ELSE {store[tokenId]}

\* what get returns: {} for null, {token} otherwise
get(store, tokenId, t) ==
    IF tokenId \notin DOMAIN store THEN {}
    ELSE IF t >= store[tokenId].expires_at THEN {}
    ELSE {store[tokenId]}

\* the store get leaves behind
getStore(store, tokenId, t) ==
    IF tokenId \in DOMAIN store /\ t >= store[tokenId].expires_at
    THEN drop(store, {tokenId})
    ELSE store

\* markUsed that flips the flag
markUsed_Toggle(store, tokenId) ==
    IF tokenId \notin DOMAIN store THEN store
    ELSE [store EXCEPT ![tokenId].used = ~@]

\* token.used = true on the stored token, nothing when there is none
markUsed(store, tokenId) ==
    IF tokenId \notin DOMAIN store THEN store
    ELSE [store EXCEPT ![tokenId].used = TRUE]

markUsedResult(store, tokenId) == tokenId \in DOMAIN store

\* expired that keeps a token at the instant it expires
expired_StrictlyAfter(store, t) == {id \in DOMAIN store : t > store[id].expires_at}

expired(store, t) == {id \in DOMAIN store : t >= store[id].expires_at}

purgeExpired(store, t) == drop(store, expired(store, t))

purgeExpiredCount(store, t) == Cardinality(expired(store, t))

\* get size(): purgeExpired(), then the map's size
size(store, t) == Cardinality(DOMAIN purgeExpired(store, t))

----------------------------------------------------------------------------
(* The tool handlers.  Neither handler awaits anything, so each runs as    *)
(* one step between other callbacks.                                        *)

MaxAudit == 5           \* the handlers stop being called when the log could outgrow this

requestedEntry(request, t) ==
    [NoEntry EXCEPT !.timestamp = t, !.event = "credential_requested",
                    !.agent_id = request.agent_id, !.skill_id = request.skill_id,
                    !.credential_name = request.credential_name,
                    !.purpose = request.purpose]

deniedEntry(request, result, t) ==
    [NoEntry EXCEPT !.timestamp = t, !.event = "credential_denied",
                    !.policy = result.policy_name,
                    !.agent_id = request.agent_id, !.skill_id = request.skill_id,
                    !.credential_name = request.credential_name,
                    !.purpose = request.purpose, !.outcome = "denied",
                    !.details = PlainText(result.reason)]

approvalEntry(request, result, t) ==
    [NoEntry EXCEPT !.timestamp = t, !.event = "approval_required",
                    !.policy = result.policy_name,
                    !.agent_id = request.agent_id, !.skill_id = request.skill_id,
                    !.credential_name = request.credential_name,
                    !.purpose = request.purpose, !.outcome = "pending_approval",
                    !.details = PlainText(result.reason)]

\* a granted entry that records the token's credential value as details
grantedEntry_LogsValue(request, result, token, t) ==
    [NoEntry EXCEPT !.timestamp = t, !.event = "credential_granted",
                    !.policy = result.policy_name,
                    !.agent_id = request.agent_id, !.skill_id = request.skill_id,
                    !.credential_name = request.credential_name,
                    !.purpose = request.purpose, !.token_id = token.token_id,
                    !.scope = token.scope, !.outcome = "granted",
                    !.details = PlainText(token.credential_value)]

grantedEntry(request, result, token, t) ==
    [NoEntry EXCEPT !.timestamp = t, !.event = "credential_granted",
                    !.policy = result.policy_name,
                    !.agent_id = request.agent_id, !.skill_id = request.skill_id,
                    !.credential_name = request.credential_name,
                    !.purpose = request.purpose, !.token_id = token.token_id,
                    !.scope = token.scope, !.outcome = "granted"]

\* a handler that forgets to log the request
logRequest_Skipped(a, request, t) == a

\* the handler's first statement
logRequest(a, request, t) == log(a, requestedEntry(request, t), t)

\* issue called with the credential's name where its value belongs
issueParams_NameAsValue(credential, result, request, matchingPolicy) ==
    [ credential_name |-> credential.name,
      credential_value |-> credential.name,
      policy_name |-> result.policy_name,
      agent_id |-> request.agent_id,
      skill_id |-> request.skill_id,
      scope |-> result.scope,
      ttl |-> IF matchingPolicy = {} THEN {} ELSE Val(matchingPolicy).ttl ]

\* arguments that leave the policy's ttl out
issueParams_NoTtl(credential, result, request, matchingPolicy) ==
    [ credential_name |-> credential.name,
      credential_value |-> credential.value,
      policy_name |-> result.policy_name,
      agent_id |-> request.agent_id,
      skill_id |-> request.skill_id,
      scope |-> result.scope,
      ttl |-> {} ]

\* the arguments of tokenStore.issue in the handler
issueParams(credential, result, request, matchingPolicy) ==
    [ credential_name |-> credential.name,
      credential_value |-> credential.value,
      policy_name |-> result.policy_name,
      agent_id |-> request.agent_id,
      skill_id |-> request.skill_id,
      scope |-> result.scope,
      ttl |-> IF matchingPolicy = {} THEN {} ELSE Val(matchingPolicy).ttl ]

\* a handler without the early return for require_approval
branchOn_ApprovalFallsThrough(decision) ==
    IF decision = "deny" THEN "denied" ELSE "vault"

\* the handler's branch on the decision: the two early returns, else the vault
branchOn(decision) ==
    CASE decision = "deny" -> "denied"
      [] decision = "require_approval" -> "require_approval"
      [] OTHER -> "vault"

\* the parameters of no call: a record, as every tool's parameters are
NoParams == [credential_name |-> Undef]

NoResp == [ op |-> "none", request |-> NoParams, decision |-> Undef, policy |-> Undef,
            status |-> Undef, reason |-> Undef, token_id |-> 0,
            credential_value |-> Undef, expires_at |-> 0, scope |-> Undef,
            vault_read |-> FALSE, returned |-> {}, at |-> 0,
            id |-> 0, entry |-> Undef, filters |-> Undef, rows |-> <<>>, total |-> 0,
            summaries |-> <<>>, budget |-> Undef, max_per_month |-> {},
            spent_this_month |-> 0, remaining |-> 0, currency |-> Undef,
            max_per_transaction |-> {}, removed |-> FALSE ]

RequestCredential(request) ==
    /\ Len(audit) + 2 <= MaxAudit
    /\ LET a1 == logRequest(audit, request, now)
           candidates == listPoliciesForAgent(policies, request.agent_id, request.skill_id)
           monthlySpending == getMonthlySpending(a1, request.credential_name, MonthOf(now))
           result == evaluateFirst(candidates, request, monthlySpending)
           branch == branchOn(result.decision)
           credential == getCredential(vault, request.credential_name)
           matchingPolicy == getPolicy(policies, result.policy_name)
           token == issue(issueParams(credential, result, request, matchingPolicy),
                          now, nextToken)
           base == [NoResp EXCEPT !.op = "request_credential", !.request = request,
                                  !.decision = result.decision]
       IN  CASE branch = "denied" ->
                  /\ audit' = log(a1, deniedEntry(request, result, now), now)
                  /\ resp' = [base EXCEPT !.status = "denied", !.reason = result.reason]
                  /\ UNCHANGED <<tokens, nextToken, issued>>
             [] branch = "require_approval" ->
                  /\ audit' = log(a1, approvalEntry(request, result, now), now)
                  /\ resp' = [base EXCEPT !.status = "require_approval",
                                          !.reason = result.reason,
                                          !.policy = result.policy_name]
                  /\ UNCHANGED <<tokens, nextToken, issued>>
             [] branch = "vault" /\ credential.status = "throws" ->
                  /\ audit' = a1
                  /\ resp' = [base EXCEPT !.status = "threw", !.vault_read = TRUE]
                  /\ UNCHANGED <<tokens, nextToken, issued>>
             [] branch = "vault" /\ credential.status = "null" ->
                  /\ audit' = a1
                  /\ resp' = [base EXCEPT !.status = "error",
                                          !.reason = "not found in vault",
                                          !.vault_read = TRUE]
                  /\ UNCHANGED <<tokens, nextToken, issued>>
             [] branch = "vault" /\ credential.status = "ok" ->
                  /\ tokens' = (nextToken :> token) @@ tokens
                  /\ issued' = (nextToken :> token) @@ issued
                  /\ nextToken' = nextToken + 1
                  /\ audit' = log(a1, grantedEntry(request, result, token, now), now)
                  /\ resp' = [base EXCEPT !.status = "granted",
                                          !.token_id = token.token_id,
                                          !.credential_value = token.credential_value,
                                          !.expires_at = token.expires_at,
                                          !.scope = token.scope,
                                          !.vault_read = TRUE]
    /\ UNCHANGED <<engIn, engOut, now, policies, vault>>

\* a credential_used entry that takes the currency as the caller gave it
usedEntry_CurrencyAsGiven(token, params, t) ==
    [NoEntry EXCEPT !.timestamp = t, !.event = "credential_used",
                    !.policy = token.policy_name,
                    !.agent_id = token.agent_id, !.skill_id = token.skill_id,
                    !.credential_name = token.credential_name,
                    !.token_id = token.token_id, !.scope = token.scope,
                    !.outcome = IF params.outcome = Undef THEN "used" ELSE params.outcome,
                    !.details = IF Has(params.amount)
                                THEN stringifyUsage(Val(params.amount),
                                        params.currency, params.details)
                                ELSE IF params.details = Undef THEN NoText
                                ELSE PlainText(params.details)]

usedEntry(token, params, t) ==
    [NoEntry EXCEPT !.timestamp = t, !.event = "credential_used",
                    !.policy = token.policy_name,
                    !.agent_id = token.agent_id, !.skill_id = token.skill_id,
                    !.credential_name = token.credential_name,
                    !.token_id = token.token_id, !.scope = token.scope,
                    !.outcome = IF params.outcome = Undef THEN "used" ELSE params.outcome,
                    !.details = IF Has(params.amount)
                                THEN stringifyUsage(Val(params.amount),
                                        IF params.currency = Undef THEN "USD"
                                        ELSE params.currency,
                                        params.details)
                                ELSE IF params.details = Undef THEN NoText
                                ELSE PlainText(params.details)]

ReportUsage(params) ==
    /\ Len(audit) + 1 <= MaxAudit
    /\ LET found == get(tokens, params.token_id, now)
           store1 == getStore(tokens, params.token_id, now)
           base == [NoResp EXCEPT !.op = "report_usage", !.token_id = params.token_id]
       IN  IF found = {}
           THEN /\ tokens' = store1
                /\ resp' = [base EXCEPT !.status = "error",
                                        !.reason = "Token not found or expired."]
                /\ UNCHANGED audit
           ELSE /\ tokens' = markUsed(store1, params.token_id)
                /\ audit' = log(audit, usedEntry(Val(found), params, now), now)
                /\ resp' = [base EXCEPT !.status = "recorded"]
    /\ UNCHANGED <<engIn, engOut, now, policies, vault, nextToken, issued>>

\* a summary that also carries the policy's scope
summarize_WithScope(p) ==
    [ name |-> p.name, description |-> p.description, credential |-> p.credential,
      actions |-> p.actions,
      budget |-> [ max_per_transaction |-> p.max_per_transaction,
                   max_per_month |-> p.max_per_month, currency |-> p.currency ],
      ttl |-> p.ttl, scope |-> p.scope ]

\* the summary list_available_policies returns for a policy
summarize(p) ==
    [ name |-> p.name, description |-> p.description, credential |-> p.credential,
      actions |-> p.actions,
      budget |-> [ max_per_transaction |-> p.max_per_transaction,
                   max_per_month |-> p.max_per_month, currency |-> p.currency ],
      ttl |-> p.ttl ]

ListAvailablePolicies(params) ==
    /\ LET ps == listPoliciesForAgent(policies, params.agent_id, params.skill_id)
       IN  resp' = [NoResp EXCEPT !.op = "list_available_policies",
                                  !.request = params,
                                  !.summaries = [i \in 1..Len(ps) |-> summarize(ps[i])]]
    /\ UNCHANGED <<engIn, engOut, now, policies, vault, tokens, nextToken, issued, audit>>

\* listPolicies().find(p => p.credential === credentialName): {} for undefined
findPolicy(ps, credentialName) ==
    LET hits == {i \in 1..Len(ps) : ps[i].credential = credentialName}
    IN  IF hits = {} THEN {} ELSE {ps[CHOOSE i \in hits : \A j \in hits : i <= j]}

\* a string a JavaScript conditional takes as true: present and not empty
truthy(str) == str # Undef /\ str # ""

\* the policy check_budget reports on: params.policy_name ? getPolicy(..) : find(..)
budgetPolicy(ps, params) ==
    IF truthy(params.policy_name)
    THEN getPolicy(ps, params.policy_name)
    ELSE findPolicy(listPolicies(ps), params.credential_name)

\* Math.max(0, limit - spent)
remainingOf(limit, spent) == IF limit - spent > 0 THEN limit - spent ELSE 0

CheckBudget(params) ==
    /\ LET found == budgetPolicy(policies, params)
           base == [NoResp EXCEPT !.op = "check_budget", !.request = params]
       IN  IF found = {}
           THEN resp' = [base EXCEPT !.status = "error", !.reason = "No policy found"]
           ELSE LET policy == Val(found)
                    spent == getMonthlySpending(audit, params.credential_name,
                                                MonthOf(now))
                IN  IF ~Has(policy.max_per_month)
                    THEN resp' = [base EXCEPT !.policy = policy.name,
                                              !.budget = "unlimited"]
                    ELSE resp' = [base EXCEPT
                                    !.policy = policy.name,
                                    !.max_per_month = policy.max_per_month,
                                    !.spent_this_month = spent,
                                    !.remaining = remainingOf(Val(policy.max_per_month),
                                                              spent),
                                    !.currency = IF policy.currency = Undef THEN "USD"
                                                 ELSE policy.currency,
                                    !.max_per_transaction = policy.max_per_transaction]
    /\ UNCHANGED <<engIn, engOut, now, policies, vault, tokens, nextToken, issued, audit>>

\* the setInterval callback of createServer
PurgeTimer ==
    /\ tokens' = purgeExpired(tokens, now)
    /\ UNCHANGED <<engIn, engOut, now, policies, vault, nextToken, issued, audit, resp>>

\* Date.now() never goes back
AdvanceTo(t) ==
    /\ t > now /\ now' = t
    /\ UNCHANGED <<engIn, engOut, policies, vault, tokens, nextToken, issued, audit, resp>>

Tick == \E t \in ClockValues : AdvanceTo(t)

----------------------------------------------------------------------------
(* The server: policies loaded and the vault unlocked by createServer, then *)
(* tool calls, the purge timer and the clock.                               *)

PolicyBase ==
    [ name |-> "base", credential |-> "c1", grant_agent |-> {Wildcard},
      grant_skill |-> Unset, deny |-> Unset, actions |-> Unset,
      max_per_transaction |-> {}, max_per_month |-> {}, approval_threshold |-> {},
      condition |-> Undef, scope |-> Undef, ttl |-> {},
      description |-> Undef, currency |-> Undef ]

DocGuarded ==
    << [PolicyBase EXCEPT !.name = "guarded", !.deny = {"a1"},
                          !.approval_threshold = {1}, !.scope = "scopeA", !.ttl = {1}],
       [PolicyBase EXCEPT !.name = "open", !.max_per_month = {2},
                          !.description = "open access"] >>

DocStripe ==
    << [PolicyBase EXCEPT !.name = "stripe", !.grant_agent = {"a1"},
                          !.max_per_transaction = {1}, !.max_per_month = {2}],
       [PolicyBase EXCEPT !.name = "spare", !.credential = "c2",
                          !.grant_agent = {"a2"}, !.ttl = {1}] >>

PipelineDocs == {DocGuarded, DocStripe}

Passphrase == "pass-1"
Salt == "salt-1"

VaultWith(names, unlockedWith) ==
    [ salt |-> Salt,
      key |-> deriveKey(unlockedWith, Salt),
      creds |-> [n \in names |-> encrypt(IF n = "c1" THEN "secret-1" ELSE "secret-2",
                                         deriveKey(Passphrase, Salt))],
      pending |-> {}, closed |-> FALSE, opened |-> TRUE, inits |-> 0, calls |-> 0,
      initPass |-> Passphrase ]

PipelineVaults ==
    { VaultWith({"c1"}, Passphrase), VaultWith({"c1", "c2"}, Passphrase),
      VaultWith({"c1"}, "pass-2") }

PipelineRequests ==
    [ credential_name : CredNames, agent_id : Agents, skill_id : {Undef},
      purpose : {"random task"}, amount : {{}, {2}}, currency : {Undef},
      action : {Undef} ]

MaxTokenId == 2         \* report_usage is called with token ids 1..MaxTokenId

UsageParams ==
    [ token_id : 1..MaxTokenId, amount : {{}, {2}}, currency : {Undef},
      outcome : {Undef}, details : {Undef} ]

\* report_usage arguments in the four-tool specification: z.number() takes a
\* negative amount, z.string() takes any details
ToolUsageParams ==
    [ token_id : 1..MaxTokenId, amount : {{}, {2}, {-1}}, currency : {Undef},
      outcome : {Undef}, details : {Undef, AmountJson} ]

ListParams == [ agent_id : Agents, skill_id : {Undef} ]

BudgetParams ==
    [ credential_name : CredNames, policy_name : {Undef, "", "open", "spare", "nope"} ]

EngineIdleIn == [op |-> "none", policies |-> <<>>, request |-> Undef, monthlySpending |-> 0]

Init ==
    /\ engIn = EngineIdleIn /\ engOut = Pending
    /\ now = 0
    /\ policies \in PipelineDocs
    /\ vault \in PipelineVaults
    /\ tokens = NoTokens /\ nextToken = 1 /\ issued = NoTokens
    /\ audit = <<>>
    /\ resp = NoResp

Next ==
    \/ \E request \in PipelineRequests : RequestCredential(request)
    \/ \E params \in UsageParams : ReportUsage(params)
    \/ PurgeTimer
    \/ Tick

Spec == Init /\ [][Next]_vars

\* The four tools together (registerAllTools), over shorter logs.
MaxToolAudit == 3       \* the log's length in the four-tool specification

ToolsNext ==
    \/ \E request \in PipelineRequests :
          RequestCredential(request) /\ Len(audit') <= MaxToolAudit
    \/ \E params \in ToolUsageParams :
          ReportUsage(params) /\ Len(audit') <= MaxToolAudit
    \/ \E params \in ListParams : ListAvailablePolicies(params)
    \/ \E params \in BudgetParams : CheckBudget(params)
    \/ PurgeTimer
    \/ AdvanceTo(MonthMs)

SpecTools == Init /\ [][ToolsNext]_vars

----------------------------------------------------------------------------
(* The engine specification: evaluate and evaluateFirst are pure, so their  *)
(* arguments are drawn in Init and one action applies the function.        *)

FullPolicies ==
    [ name : {"p1"}, credential : {"c1"},
      grant_agent : {Unset, {Wildcard}, {"a2"}},
      grant_skill : {Unset, {"s1"}},
      deny : {Unset, {"a1"}},
      actions : {Unset, {"charge"}},
      max_per_transaction : {{}, {2}},
      max_per_month : {{}, {3}},
      approval_threshold : {{}, {1}},
      condition : {Undef, CondDeploy, CondAmount, CondBroken},
      scope : {"scopeA"}, ttl : {{}},
      description : {Undef}, currency : {Undef} ]

FullRequests ==
    [ credential_name : {"c1"}, agent_id : Agents,
      skill_id : {Undef} \cup Skills, purpose : Purposes,
      amount : Amounts, currency : {Undef},
      action : {Undef} \cup Actions ]

ListPolicies ==
    [ name : {"p1", "p2"}, credential : CredNames,
      grant_agent : {{Wildcard}}, grant_skill : {Unset},
      deny : {Unset, {"a1"}},
      actions : {Unset},
      max_per_transaction : {{}}, max_per_month : {{}},
      approval_threshold : {{}, {1}},
      condition : {Undef},
      scope : {Undef, "scopeA"}, ttl : {{}},
      description : {Undef}, currency : {Undef} ]

ListRequests ==
    [ credential_name : CredNames, agent_id : Agents,
      skill_id : {Undef}, purpose : {"random task"},
      amount : {{}, {1}, {2}}, currency : {Undef}, action : {Undef} ]

SeqsUpTo(S, n) == UNION {[1..k -> S] : k \in 0..n}

EngineIdle ==
    /\ now = 0 /\ policies = <<>> /\ vault = VaultWith({}, Passphrase)
    /\ tokens = NoTokens /\ nextToken = 1 /\ issued = NoTokens
    /\ audit = <<>> /\ resp = NoResp

EngineInit ==
    /\ \/ /\ \E p \in FullPolicies, r \in FullRequests, ms \in 0..MaxSpent :
                engIn = [op |-> "evaluate", policies |-> <<p>>, request |-> r,
                         monthlySpending |-> ms]
       \/ /\ \E ps \in SeqsUpTo(ListPolicies, MaxPolicies), r \in ListRequests :
                engIn = [op |-> "evaluateFirst", policies |-> ps, request |-> r,
                         monthlySpending |-> 0]
    /\ engOut = Pending
    /\ EngineIdle

Evaluate ==
    /\ engIn.op = "evaluate" /\ engOut = Pending
    /\ engOut' = evaluate(engIn.policies[1], engIn.request, engIn.monthlySpending)
    /\ UNCHANGED <<engIn, now, policies, vault, tokens, nextToken, issued, audit, resp>>

EvaluateFirst ==
    /\ engIn.op = "evaluateFirst" /\ engOut = Pending
    /\ engOut' = evaluateFirst(engIn.policies, engIn.request, engIn.monthlySpending)
    /\ UNCHANGED <<engIn, now, policies, vault, tokens, nextToken, issued, audit, resp>>

EngineNext == Evaluate \/ EvaluateFirst

SpecEngine == EngineInit /\ [][EngineNext]_vars

----------------------------------------------------------------------------
(* The token store on its own: issue, get, markUsed and purgeExpired       *)
(* called in any order at any sampled instant, with any ttl, 0 included.   *)

MaxIssued == 2          \* tokens issued in a run of the token-store specification
MaxTokenSec == 2        \* instants sampled there: 0..MaxTokenSec s and 300, 301 s

TokenClockValues ==
    {s * 1000 : s \in 0..MaxTokenSec} \cup {300 * 1000, 301 * 1000}

TokenTtls == {{0}, {1}, {}}

TokenParams(ttl) ==
    [ credential_name |-> "c1", credential_value |-> "secret-1",
      policy_name |-> "open", agent_id |-> "a1", skill_id |-> Undef,
      scope |-> Undef, ttl |-> ttl ]

TokenInit ==
    /\ engIn = EngineIdleIn /\ engOut = Pending
    /\ now = 0 /\ policies = <<>> /\ vault = VaultWith({}, Passphrase)
    /\ tokens = NoTokens /\ nextToken = 1 /\ issued = NoTokens
    /\ audit = <<>> /\ resp = NoResp

Issue(ttl) ==
    /\ nextToken <= MaxIssued
    /\ LET token == issue(TokenParams(ttl), now, nextToken)
       IN  /\ tokens' = (nextToken :> token) @@ tokens
           /\ issued' = (nextToken :> token) @@ issued
           /\ resp' = [NoResp EXCEPT !.op = "issue", !.token_id = nextToken,
                                     !.returned = {token}]
    /\ nextToken' = nextToken + 1
    /\ UNCHANGED <<engIn, engOut, now, policies, vault, audit>>

Get(tokenId) ==
    /\ resp' = [NoResp EXCEPT !.op = "get", !.token_id = tokenId, !.at = now,
                              !.returned = get(tokens, tokenId, now)]
    /\ tokens' = getStore(tokens, tokenId, now)
    /\ UNCHANGED <<engIn, engOut, now, policies, vault, nextToken, issued, audit>>

MarkUsed(tokenId) ==
    /\ resp' = [NoResp EXCEPT !.op = "markUsed", !.token_id = tokenId,
                              !.status = IF markUsedResult(tokens, tokenId)
                                         THEN "true" ELSE "false"]
    /\ tokens' = markUsed(tokens, tokenId)
    /\ UNCHANGED <<engIn, engOut, now, policies, vault, nextToken, issued, audit>>

PurgeExpired ==
    /\ resp' = [NoResp EXCEPT !.op = "purgeExpired",
                              !.expires_at = purgeExpiredCount(tokens, now)]
    /\ tokens' = purgeExpired(tokens, now)
    /\ UNCHANGED <<engIn, engOut, now, policies, vault, nextToken, issued, audit>>

Size ==
    /\ resp' = [NoResp EXCEPT !.op = "size", !.at = now, !.total = size(tokens, now)]
    /\ tokens' = purgeExpired(tokens, now)
    /\ UNCHANGED <<engIn, engOut, now, policies, vault, nextToken, issued, audit>>

TokenTick == \E t \in TokenClockValues : AdvanceTo(t)

TokenNext ==
    \/ \E ttl \in TokenTtls : Issue(ttl)
    \/ \E id \in 1..MaxIssued : Get(id)
    \/ \E id \in 1..MaxIssued : MarkUsed(id)
    \/ PurgeExpired
    \/ Size
    \/ TokenTick

SpecTokens == TokenInit /\ [][TokenNext]_vars

----------------------------------------------------------------------------
(* The audit logger on its own: log, query and getMonthlySpending called   *)
(* in any order with any of a few entries, filters and months.              *)

MaxLogged == 2          \* entries logged in a run of the audit specification

UsedBase ==
    [NoEntry EXCEPT !.timestamp = NoTime, !.event = "credential_used",
                    !.agent_id = "a1", !.credential_name = "c1"]

\* entries that differ in every column a filter or the spending sum reads
AuditEntries ==
    { [UsedBase EXCEPT !.policy = "p1", !.scope = "scopeA", !.token_id = 1,
                       !.details = stringifyUsage(1, "USD", Undef)],
      [UsedBase EXCEPT !.agent_id = "a2", !.policy = "p2",
                       !.timestamp = MonthMs,
                       !.details = stringifyUsage(2, "USD", Undef)],
      [UsedBase EXCEPT !.credential_name = "c2", !.timestamp = 0,
                       !.details = stringifyUsage(2, "EUR", "note")],
      [UsedBase EXCEPT !.event = "credential_granted", !.policy = "p1",
                       !.timestamp = 0, !.scope = "{}",
                       !.details = stringifyUsage(1, "USD", Undef)],
      [UsedBase EXCEPT !.details = PlainText("note")],
      [UsedBase EXCEPT !.agent_id = "a2", !.timestamp = 0,
                       !.details = [NoText EXCEPT !.kind = "json"]] }

AuditFilters ==
    [ event : {Undef, "credential_used"}, policy : {Undef, "p1"},
      agent_id : {Undef, "a2"}, since : {NoTime, MonthMs},
      limit : {{}, {0}, {1}} ]

\* the instants sampled there: one in each of two calendar months
AuditClockValues == {0, MonthMs}

AuditMonths == {NoMonth} \cup {MonthOf(t) : t \in AuditClockValues}

AuditInit ==
    /\ engIn = EngineIdleIn /\ engOut = Pending
    /\ now = 0 /\ policies = <<>> /\ vault = VaultWith({}, Passphrase)
    /\ tokens = NoTokens /\ nextToken = 1 /\ issued = NoTokens
    /\ audit = <<>> /\ resp = NoResp

Log(entry) ==
    /\ Len(audit) < MaxLogged
    /\ audit' = log(audit, entry, now)
    /\ resp' = [NoResp EXCEPT !.op = "log", !.entry = entry, !.at = now,
                              !.id = audit'[Len(audit')].id]
    /\ UNCHANGED <<engIn, engOut, now, policies, vault, tokens, nextToken, issued>>

Query(filters) ==
    /\ resp' = [NoResp EXCEPT !.op = "query", !.filters = filters, !.at = now,
                              !.rows = query(audit, filters)]
    /\ UNCHANGED <<engIn, engOut, now, policies, vault, tokens, nextToken, issued, audit>>

MonthlySpending(credentialName, month) ==
    /\ resp' = [NoResp EXCEPT !.op = "getMonthlySpending", !.at = now,
                              !.filters = <<credentialName, month>>,
                              !.total = getMonthlySpending(audit, credentialName,
                                                           targetMonthOf(month, now))]
    /\ UNCHANGED <<engIn, engOut, now, policies, vault, tokens, nextToken, issued, audit>>

AuditTick == \E t \in AuditClockValues : AdvanceTo(t)

AuditNext ==
    \/ \E entry \in AuditEntries : Log(entry)
    \/ \E filters \in AuditFilters : Query(filters)
    \/ \E c \in CredNames, month \in AuditMonths : MonthlySpending(c, month)
    \/ AuditTick

SpecAudit == AuditInit /\ [][AuditNext]_vars

----------------------------------------------------------------------------
(* The vault alone: one Vault instance over a database file. initialize and *)
(* unlock are async: each runs to its await of deriveKey, is suspended      *)
(* there, and resumes later; every other method is synchronous.             *)

MaxCalls == 2           \* initialize and unlock calls that get as far as the await

\* the salts generateSalt hands out, one per call: 32 random bytes, all distinct
SaltNames == <<"salt-2", "salt-3", "salt-4", "salt-5">>

Passphrases == {Passphrase, "pass-2"}
Secrets == {"secret-1", "secret-2"}

\* a vault over a new database file: no salt, no rows, no key
FreshVault ==
    [ salt |-> Undef, key |-> NoKey, creds |-> [n \in {} |-> encrypt(Undef, NoKey)],
      pending |-> {}, closed |-> FALSE, opened |-> FALSE, inits |-> 0, calls |-> 0,
      initPass |-> Undef ]

\* a new instance over a database that was initialized with Passphrase before
StoredVault == [VaultWith({"c1"}, Passphrase) EXCEPT !.key = NoKey, !.opened = FALSE]

VaultInit ==
    /\ engIn = EngineIdleIn /\ engOut = Pending
    /\ now = 0 /\ policies = <<>> /\ vault \in {FreshVault, StoredVault}
    /\ tokens = NoTokens /\ nextToken = 1 /\ issued = NoTokens
    /\ audit = <<>> /\ resp = NoResp

VaultOnly == UNCHANGED <<engIn, engOut, now, policies, tokens, nextToken, issued, audit>>

VaultResp(op, params, status, error) ==
    [NoResp EXCEPT !.op = op, !.request = params, !.status = status, !.reason = error]

\* initialize up to the await: the salt check, generateSalt, the call of deriveKey
InitializeBegin(passphrase) ==
    /\ LET params == [passphrase |-> passphrase]
       IN  IF vault.closed
           THEN /\ resp' = VaultResp("initialize", params, "throws", "DatabaseClosed")
                /\ UNCHANGED vault
           ELSE IF vault.salt # Undef
           THEN /\ resp' = VaultResp("initialize", params, "throws", "AlreadyInitialized")
                /\ UNCHANGED vault
           ELSE /\ vault.calls < MaxCalls
                /\ vault' = [vault EXCEPT
                       !.pending = @ \cup {[op |-> "initialize", pass |-> passphrase,
                                            salt |-> SaltNames[vault.calls + 1]]},
                       !.calls = @ + 1]
                /\ resp' = VaultResp("initialize", params, "pending", Undef)
    /\ VaultOnly

\* initialize from the await on: this.key is assigned, then the transaction
\* writes the salt with INSERT OR REPLACE; on a closed database prepare throws
InitializeEnd(call) ==
    /\ call \in vault.pending /\ call.op = "initialize"
    /\ LET params == [passphrase |-> call.pass]
           keyed == [vault EXCEPT !.key = deriveKey(call.pass, call.salt),
                                  !.pending = @ \ {call}]
       IN  IF vault.closed
           THEN /\ vault' = keyed
                /\ resp' = VaultResp("initialize", params, "throws", "DatabaseClosed")
           ELSE /\ vault' = [keyed EXCEPT !.salt = call.salt, !.opened = TRUE,
                                          !.inits = @ + 1, !.initPass = call.pass]
                /\ resp' = VaultResp("initialize", params, "ok", Undef)
    /\ VaultOnly

\* unlock up to the await: the salt is read, deriveKey is called
UnlockBegin(passphrase) ==
    /\ LET params == [passphrase |-> passphrase]
       IN  IF vault.closed
           THEN /\ resp' = VaultResp("unlock", params, "throws", "DatabaseClosed")
                /\ UNCHANGED vault
           ELSE IF vault.salt = Undef
           THEN /\ resp' = VaultResp("unlock", params, "throws", "NotInitialized")
                /\ UNCHANGED vault
           ELSE /\ vault.calls < MaxCalls
                /\ vault' = [vault EXCEPT
                       !.pending = @ \cup {[op |-> "unlock", pass |-> passphrase,
                                            salt |-> vault.salt]},
                       !.calls = @ + 1]
                /\ resp' = VaultResp("unlock", params, "pending", Undef)
    /\ VaultOnly

\* unlock from the await on: this.key is assigned, nothing is verified
UnlockEnd(call) ==
    /\ call \in vault.pending /\ call.op = "unlock"
    /\ vault' = [vault EXCEPT !.key = deriveKey(call.pass, call.salt),
                              !.pending = @ \ {call}, !.opened = TRUE]
    /\ resp' = VaultResp("unlock", [passphrase |-> call.pass], "ok", Undef)
    /\ VaultOnly

AddCredential(name, value) ==
    /\ LET r == addCredential(vault, name, value)
       IN  /\ vault' = [vault EXCEPT !.creds = r.creds]
           /\ resp' = VaultResp("addCredential", [name |-> name, value |-> value],
                                r.status, r.error)
    /\ VaultOnly

GetCredential(name) ==
    /\ LET r == getCredential(vault, name)
       IN  resp' = [VaultResp("getCredential", [name |-> name], r.status, r.error)
                       EXCEPT !.credential_value = r.value]
    /\ UNCHANGED vault /\ VaultOnly

ListCredentials ==
    /\ LET r == listCredentials(vault)
       IN  resp' = [VaultResp("listCredentials", NoParams, r.status, r.error)
                       EXCEPT !.returned = r.rows]
    /\ UNCHANGED vault /\ VaultOnly

RemoveCredential(name) ==
    /\ LET r == removeCredential(vault, name)
       IN  /\ vault' = [vault EXCEPT !.creds = r.creds]
           /\ resp' = [VaultResp("removeCredential", [name |-> name], r.status, r.error)
                          EXCEPT !.removed = r.removed]
    /\ VaultOnly

\* close: the key is dropped and the database connection closed
Close ==
    /\ vault' = [vault EXCEPT !.key = NoKey, !.closed = TRUE]
    /\ resp' = VaultResp("close", NoParams, "ok", Undef)
    /\ VaultOnly

VaultNext ==
    \/ \E passphrase \in Passphrases : InitializeBegin(passphrase)
    \/ \E call \in vault.pending : InitializeEnd(call)
    \/ \E passphrase \in Passphrases : UnlockBegin(passphrase)
    \/ \E call \in vault.pending : UnlockEnd(call)
    \/ \E name \in CredNames, value \in Secrets : AddCredential(name, value)
    \/ \E name \in CredNames : GetCredential(name)
    \/ ListCredentials
    \/ \E name \in CredNames : RemoveCredential(name)
    \/ Close

SpecVault == VaultInit /\ [][VaultNext]_vars

----------------------------------------------------------------------------
(* The eight checks of the engine as the specification words them; a claim *)
(* is stated with these and decided by evaluate / evaluateFirst above.     *)

CheckFails(k, policy, request, monthlySpending) ==
    CASE k = 1 -> policy.deny # Unset /\ request.agent_id \in policy.deny
      [] k = 2 -> /\ policy.grant_agent # Unset
                  /\ Wildcard \notin policy.grant_agent
                  /\ request.agent_id \notin policy.grant_agent
      [] k = 3 -> /\ request.skill_id # Undef
                  /\ policy.grant_skill # Unset
                  /\ Wildcard \notin policy.grant_skill
                  /\ request.skill_id \notin policy.grant_skill
      [] k = 4 -> /\ policy.actions # Unset
                  /\ request.action # Undef
                  /\ request.action \notin policy.actions
      [] k = 5 -> \E a \in request.amount, l \in policy.max_per_transaction : a > l
      [] k = 6 -> \E a \in request.amount, l \in policy.max_per_month :
                      monthlySpending + a > l
      [] k = 7 -> \E a \in request.amount, l \in policy.approval_threshold : a > l
      [] k = 8 -> /\ policy.condition # Undef
                  /\ celEvaluate(policy.condition, celContext(request)) # "true"

CheckOutcome(k) == IF k = 7 THEN "require_approval" ELSE "deny"

CheckReasons(k) ==
    CASE k = 1 -> {"explicitly denied"}
      [] k = 2 -> {"agent not granted"}
      [] k = 3 -> {"skill not granted"}
      [] k = 4 -> {"action not allowed"}
      [] k = 5 -> {"exceeds max per transaction"}
      [] k = 6 -> {"would exceed monthly budget"}
      [] k = 7 -> {"exceeds approval threshold"}
      [] k = 8 -> {"CEL condition", "CEL evaluation error"}

Failing(policy, request, monthlySpending) ==
    {k \in 1..8 : CheckFails(k, policy, request, monthlySpending)}

Least(S) == CHOOSE k \in S : \A j \in S : k <= j

Candidates == matchingPolicies(engIn.policies, engIn.request)

CandidateResult(i) == evaluate(Candidates[i], engIn.request, engIn.monthlySpending)

C3_DecisionConsistentWithChecks ==
    (engIn.op = "evaluateFirst" /\ engOut # Pending) =>
        LET n == Len(Candidates)
            F(i) == Failing(Candidates[i], engIn.request, engIn.monthlySpending)
        IN  /\ engOut.decision = "allow" =>
                \E i \in 1..n : /\ Candidates[i].name = engOut.policy_name
                                /\ Candidates[i].scope = engOut.scope
                                /\ F(i) = {}
            /\ engOut.decision = "deny" =>
                \A i \in 1..n : F(i) \cap {1, 2, 3, 4, 5, 6, 8} # {}

C3_Witness ==
    /\ engIn.op = "evaluateFirst" /\ engOut.decision = "allow"
    /\ Len(Candidates) = 2
    /\ Failing(Candidates[1], engIn.request, engIn.monthlySpending) = {1}
    /\ Failing(Candidates[2], engIn.request, engIn.monthlySpending) = {}

----------------------------------------------------------------------------
(* Claims about the request pipeline.  A step is a request_credential call  *)
(* exactly when it leaves resp naming that tool and appends to the log      *)
(* (the handler always logs the request).                                   *)

IsRequestStep == resp'.op = "request_credential" /\ audit' # audit

Appended == SubSeq(audit', Len(audit) + 1, Len(audit'))

AppendOnly == Len(audit') >= Len(audit) /\ SubSeq(audit', 1, Len(audit)) = audit

EventsOf(entries) == [i \in 1..Len(entries) |-> entries[i].event]

\* C4: a request_credential call decided deny or require_approval does not read
\* the vault, leaves the token store as it was, and appends exactly one
\* credential_denied (deny) or approval_required (require_approval) entry.
C4_NoGrantSideEffects ==
    [][ (IsRequestStep /\ resp'.decision \in {"deny", "require_approval"}) =>
            /\ ~resp'.vault_read
            /\ tokens' = tokens /\ nextToken' = nextToken /\ issued' = issued
            /\ AppendOnly
            /\ EventsOf(Appended) =
                 << "credential_requested",
                    IF resp'.decision = "deny" THEN "credential_denied"
                    ELSE "approval_required" >>
            /\ resp'.status = (IF resp'.decision = "deny" THEN "denied"
                               ELSE "require_approval")
      ]_vars

C4_Witness ==
    /\ resp.op = "request_credential" /\ resp.decision = "require_approval"
    /\ Len(audit) = 5
    /\ audit[5].event = "approval_required" /\ audit[4].event = "credential_requested"
    /\ DOMAIN tokens = {1}

\* the decision evaluateFirst takes for the request of the step
DecisionFor(request) ==
    evaluateFirst(listPoliciesForAgent(policies, request.agent_id, request.skill_id),
                  request,
                  getMonthlySpending(audit, request.credential_name, MonthOf(now)))

\* C5: a token enters the token store only in a request_credential call for
\* which evaluateFirst returned allow; that token carries the allowing policy's
\* name, the requested credential's name, the requesting agent and the value
\* the vault stores under that name at that moment.
C5_TokenOnlyOnAllow ==
    [][ \A id \in DOMAIN tokens' \ DOMAIN tokens :
            /\ IsRequestStep
            /\ DOMAIN tokens' \ DOMAIN tokens = {id}
            /\ LET request == resp'.request
                   decided == DecisionFor(request)
                   token == tokens'[id]
               IN  /\ decided.decision = "allow"
                   /\ token.policy_name = decided.policy_name
                   /\ token.credential_name = request.credential_name
                   /\ token.agent_id = request.agent_id
                   /\ request.credential_name \in DOMAIN vault.creds
                   /\ token.credential_value = vault.creds[request.credential_name].plain
      ]_vars

C5_Witness ==
    /\ resp.op = "request_credential" /\ resp.status = "granted"
    /\ resp.token_id \in DOMAIN tokens
    /\ tokens[resp.token_id].credential_value = "secret-2"
    /\ tokens[resp.token_id].policy_name = "spare"
    /\ tokens[resp.token_id].agent_id = "a2"

OutcomeEvents == {"credential_denied", "approval_required", "credential_granted"}

\* C6: the outcome entry of a request_credential call (denied, approval_required
\* or granted) directly follows the credential_requested entry of that call and
\* has the larger id; a credential_used entry has a larger id than the
\* credential_granted entry that carries its token_id.
C6_AuditOrder ==
    [][ /\ AppendOnly
        /\ \A i \in 1..Len(Appended) :
              /\ Appended[i].event \in OutcomeEvents =>
                    /\ IsRequestStep
                    /\ i = 2 /\ Len(Appended) = 2
                    /\ Appended[1].event = "credential_requested"
                    /\ Appended[1].agent_id = resp'.request.agent_id
                    /\ Appended[1].credential_name = resp'.request.credential_name
                    /\ Appended[1].id < Appended[2].id
                    /\ Appended[2].id = Appended[1].id + 1
              /\ Appended[i].event = "credential_used" =>
                    \E j \in 1..Len(audit) :
                        /\ audit[j].event = "credential_granted"
                        /\ audit[j].token_id = Appended[i].token_id
                        /\ audit[j].id < Appended[i].id
      ]_vars

C6_Witness ==
    /\ Len(audit) = 5
    /\ EventsOf(audit) = << "credential_requested", "credential_granted",
                            "credential_used", "credential_requested",
                            "credential_denied" >>
    /\ audit[3].token_id = audit[2].token_id

\* C7: every request_credential call that returns a response (granted, denied,
\* require_approval or error) has appended, after its credential_requested
\* entry, an entry recording that outcome.
C7_AllOutcomesRecorded ==
    (resp.op = "request_credential"
        /\ resp.status \in {"granted", "denied", "require_approval", "error"}) =>
        /\ Len(audit) >= 2
        /\ audit[Len(audit) - 1].event = "credential_requested"
        /\ audit[Len(audit)].event # "credential_requested"
        /\ audit[Len(audit)].credential_name = resp.request.credential_name
        /\ audit[Len(audit)].agent_id = resp.request.agent_id

\* C8: when a credential_granted entry is appended, the token its token_id names
\* is in the token store and get resolves it at that moment; every granted
\* entry names a token that was issued.
C8_GrantedAfterTokenExists ==
    [][ /\ \A i \in 1..Len(Appended) :
              Appended[i].event = "credential_granted" =>
                  /\ Appended[i].token_id \in DOMAIN tokens'
                  /\ get(tokens', Appended[i].token_id, now')
                        = {tokens'[Appended[i].token_id]}
                  /\ Appended[i].token_id \in DOMAIN issued'
        /\ \A j \in 1..Len(audit') :
              audit'[j].event = "credential_granted" =>
                  /\ audit'[j].token_id \in DOMAIN issued'
                  /\ issued'[audit'[j].token_id].credential_name = audit'[j].credential_name
      ]_vars

C8_Witness ==
    /\ Len(audit) >= 4
    /\ audit[2].event = "credential_granted" /\ audit[4].event = "credential_granted"
    /\ audit[2].token_id = 1 /\ audit[4].token_id = 2
    /\ DOMAIN tokens = {2}

\* C9: when the decision is allow and the vault holds no credential of the
\* requested name, request_credential answers error, the token store is as it
\* was and no credential_granted entry is appended.
C9_MissingCredentialIsError ==
    [][ (/\ IsRequestStep
         /\ resp'.decision = "allow"
         /\ resp'.request.credential_name \notin DOMAIN vault.creds) =>
            /\ resp'.status = "error"
            /\ tokens' = tokens /\ nextToken' = nextToken /\ issued' = issued
            /\ AppendOnly
            /\ \A i \in 1..Len(Appended) : Appended[i].event # "credential_granted"
      ]_vars

C9_Witness ==
    /\ resp.op = "request_credential" /\ resp.decision = "allow"
    /\ resp.status = "error"
    /\ resp.request.credential_name \notin DOMAIN vault.creds
    /\ DOMAIN tokens = {} /\ Len(audit) = 1

----------------------------------------------------------------------------
(* Claims about the token store *)

\* C10: under any interleaving of issue, get, markUsed, purgeExpired and clock
\* advances, get of an issued token returns it (as issued, but for used) while
\* now < expires_at and null once now >= expires_at; a token issued with
\* ttl 0 is never returned, and no operation makes an unexpired token
\* unresolvable.
C10_GetResolvesUntilExpiry ==
    /\ \A id \in DOMAIN issued :
          IF now < issued[id].expires_at
          THEN /\ id \in DOMAIN tokens
               /\ get(tokens, id, now) = {[issued[id] EXCEPT !.used = tokens[id].used]}
          ELSE get(tokens, id, now) = {}
    /\ (resp.op = "get" /\ resp.token_id \in DOMAIN issued) =>
          LET was == issued[resp.token_id]
          IN  IF resp.at < was.expires_at
              THEN resp.returned \in {{[was EXCEPT !.used = u]} : u \in BOOLEAN}
              ELSE resp.returned = {}
    /\ (resp.op = "get" /\ resp.token_id \notin DOMAIN issued) => resp.returned = {}

C10_Witness ==
    /\ resp.op = "get" /\ resp.returned # {}
    /\ \E id \in DOMAIN issued :
          /\ issued[id].expires_at = issued[id].issued_at
          /\ id \notin DOMAIN tokens
    /\ \E id \in DOMAIN tokens :
          /\ now < tokens[id].expires_at /\ tokens[id].used
          /\ id = resp.token_id /\ now > 0

----------------------------------------------------------------------------
(* Claims about report_usage.  A step is a report_usage call exactly when   *)
(* it leaves resp naming that tool and changes resp or the log: a call that *)
(* changes neither answers an error for a token the store no longer holds   *)
(* and changes nothing at all.                                              *)

IsReportStep ==
    /\ resp'.op = "report_usage"
    /\ \/ resp.op # "report_usage"
       \/ resp'.token_id # resp.token_id
       \/ resp'.status # resp.status
       \/ audit' # audit

SpendingMonths == {MonthOf(t) : t \in ClockValues}

\* C11: report_usage with a token id that was never issued, whose token has
\* expired (now >= expires_at) or was purged answers error, appends no audit
\* entry, sets the used flag of no token and leaves every monthly spending as
\* it was.
C11_UnknownTokenIsError ==
    [][ (/\ IsReportStep
         /\ \/ resp'.token_id \notin DOMAIN issued
            \/ now >= issued[resp'.token_id].expires_at
            \/ resp'.token_id \notin DOMAIN tokens) =>
            /\ resp'.status = "error"
            /\ audit' = audit
            /\ \A id \in DOMAIN tokens' :
                  id \in DOMAIN tokens /\ tokens'[id].used = tokens[id].used
            /\ \A c \in CredNames, m \in SpendingMonths :
                  getMonthlySpending(audit', c, m) = getMonthlySpending(audit, c, m)
      ]_vars

C11_Witness ==
    /\ resp.op = "report_usage" /\ resp.status = "error"
    /\ resp.token_id \in DOMAIN issued
    /\ now >= issued[resp.token_id].expires_at
    /\ \E id \in DOMAIN tokens : ~tokens[id].used /\ now < tokens[id].expires_at

----------------------------------------------------------------------------
(* Claims about the audit logger *)

RowsKept == \A k \in 1..Len(audit) : k <= Len(audit') /\ audit'[k] = audit[k]

WithId(entries, i) == {k \in 1..Len(entries) : entries[k].id = i}

\* C13: the audit log is append-only.  No step changes or removes a row; the
\* id log assigns is greater than every id assigned before; the unfiltered
\* query after log(e) holds exactly one entry with that id, equal to e but
\* for the id and a timestamp that is now when e has none; and an unfiltered
\* query returns every row, each id once.
C13_AppendOnlyLog ==
    [][ /\ RowsKept
        /\ (resp'.op = "log" /\ Len(audit') > Len(audit)) =>
              LET i == resp'.id
                  e == resp'.entry
                  all == query(audit', NoFilters)
              IN  /\ \A k \in 1..Len(audit) : audit[k].id < i
                  /\ Cardinality(WithId(all, i)) = 1
                  /\ \A k \in WithId(all, i) :
                        all[k] = [e EXCEPT !.id = i,
                                           !.timestamp = IF e.timestamp = NoTime
                                                         THEN now ELSE e.timestamp]
        /\ (resp'.op = "query" /\ resp'.filters = NoFilters) =>
              /\ Len(resp'.rows) = Len(audit')
              /\ \A k \in 1..Len(audit') :
                    /\ Cardinality(WithId(resp'.rows, audit'[k].id)) = 1
                    /\ \A j \in WithId(resp'.rows, audit'[k].id) :
                          resp'.rows[j] = rowToEntry(audit'[k])
      ]_vars

C13_Witness ==
    /\ resp.op = "log" /\ resp.id = 2 /\ resp.entry.timestamp = NoTime
    /\ resp.entry.scope = "scopeA"
    /\ now = MonthMs /\ Len(audit) = 2
    /\ audit[2].timestamp = MonthMs /\ audit[1].timestamp = 0

\* the logged entries a filter set selects, as the specification words it:
\* every supplied filter holds
Satisfies(e, filters) ==
    /\ filters.event # Undef => e.event = filters.event
    /\ filters.policy # Undef => e.policy = filters.policy
    /\ filters.agent_id # Undef => e.agent_id = filters.agent_id
    /\ filters.since # NoTime => e.timestamp >= filters.since

Selected(filters) == {k \in 1..Len(audit) : Satisfies(audit[k], filters)}

Min(x, y) == IF x < y THEN x ELSE y

\* C14: query(filters) returns exactly the logged entries that satisfy every
\* supplied filter, by strictly decreasing id; with a limit L it returns at
\* most L entries, the L matching entries with the largest ids.
C14_QueryFiltersAndLimit ==
    resp.op = "query" =>
        LET filters == resp.filters
            rows == resp.rows
            ids == {rows[k].id : k \in 1..Len(rows)}
            selected == {audit[k].id : k \in Selected(filters)}
        IN  /\ \A k \in 1..Len(rows) :
                  /\ rows[k].id \in selected
                  /\ rows[k] = rowToEntry(audit[rows[k].id])
            /\ \A k \in 1..(Len(rows) - 1) : rows[k].id > rows[k + 1].id
            /\ IF Has(filters.limit)
               THEN /\ Len(rows) <= Val(filters.limit)
                    /\ Len(rows) = Min(Val(filters.limit), Cardinality(selected))
                    /\ \A i \in ids, j \in selected \ ids : i > j
               ELSE ids = selected

\* the sum the specification words, over a set of row numbers
RECURSIVE SumOfAmounts(_)
SumOfAmounts(S) ==
    IF S = {} THEN 0
    ELSE LET k == CHOOSE x \in S : TRUE
         IN  Val(audit[k].details.amount) + SumOfAmounts(S \ {k})

Counted(c, m) ==
    {k \in 1..Len(audit) :
        /\ audit[k].event = "credential_used"
        /\ audit[k].credential_name = c
        /\ MonthOf(audit[k].timestamp) = m
        /\ audit[k].details.kind = "json"
        /\ Has(audit[k].details.amount)}

----------------------------------------------------------------------------
(* Claims about the budget arithmetic and the scoping of evaluate *)

\* no check among S fails for the evaluate call under test
Passes(S) == Failing(engIn.policies[1], engIn.request, engIn.monthlySpending) \cap S = {}

\* C16: the three limits are inclusive.  With the other checks passing, a
\* request with monthly spending + amount <= max_per_month is not denied for
\* the monthly budget and one above it is; amount = max_per_transaction is
\* not denied for the transaction limit and a larger amount is; amount =
\* approval_threshold is allowed and a larger amount, within the budgets,
\* gets require_approval.
C16_InclusiveLimits ==
    (engIn.op = "evaluate" /\ engOut # Pending) =>
        \A a \in engIn.request.amount :
            LET p == engIn.policies[1]
                spent == engIn.monthlySpending
            IN  /\ \A l \in p.max_per_month :
                      /\ spent + a <= l => engOut.reason # "would exceed monthly budget"
                      /\ (spent + a <= l /\ Passes((1..8) \ {6})) => engOut.decision = "allow"
                      /\ (spent + a > l /\ Passes(1..5)) =>
                            /\ engOut.decision = "deny"
                            /\ engOut.reason = "would exceed monthly budget"
                /\ \A l \in p.max_per_transaction :
                      /\ a <= l => engOut.reason # "exceeds max per transaction"
                      /\ (a <= l /\ Passes((1..8) \ {5})) => engOut.decision = "allow"
                      /\ (a > l /\ Passes(1..4)) =>
                            /\ engOut.decision = "deny"
                            /\ engOut.reason = "exceeds max per transaction"
                /\ \A l \in p.approval_threshold :
                      /\ a <= l => engOut.decision # "require_approval"
                      /\ (a <= l /\ Passes((1..8) \ {7})) => engOut.decision = "allow"
                      /\ (a > l /\ Passes(1..6)) => engOut.decision = "require_approval"

C16_Witness ==
    /\ engIn.op = "evaluate" /\ engOut.decision = "allow"
    /\ engIn.request.amount = engIn.policies[1].approval_threshold
    /\ engIn.request.amount # {}
    /\ engIn.policies[1].max_per_month
          = {engIn.monthlySpending + Val(engIn.request.amount)}
    /\ engIn.monthlySpending > 0
    /\ Has(engIn.policies[1].max_per_transaction)

\* C18: when a policy has an actions allow-list, evaluate allows a request
\* under that policy only if the request's action is a member of the list.
C18_ActionsAllowList ==
    (/\ engIn.op = "evaluate" /\ engOut.decision = "allow"
     /\ engIn.policies[1].actions # Unset) =>
        engIn.request.action \in engIn.policies[1].actions

\* C20: a policy the pre-filter excludes for an agent and skill is denied by
\* evaluate for every request of that agent and skill, and evaluateFirst over
\* the pre-filtered list decides as over the full list, with the same
\* policy_name and scope when the decision is allow or require_approval.
C20_PreFilterRedundant ==
    /\ (engIn.op = "evaluate" /\ engOut # Pending) =>
          (listPoliciesForAgent(engIn.policies, engIn.request.agent_id,
                                engIn.request.skill_id) = <<>>
              => engOut.decision = "deny")
    /\ (engIn.op = "evaluateFirst" /\ engOut # Pending) =>
          LET filtered == evaluateFirst(
                              listPoliciesForAgent(engIn.policies, engIn.request.agent_id,
                                                   engIn.request.skill_id),
                              engIn.request, engIn.monthlySpending)
          IN  /\ filtered.decision = engOut.decision
              /\ engOut.decision \in {"allow", "require_approval"} =>
                    /\ filtered.policy_name = engOut.policy_name
                    /\ filtered.scope = engOut.scope

C20_Witness ==
    /\ engIn.op = "evaluateFirst" /\ engOut.decision = "allow"
    /\ Len(engIn.policies) = 2
    /\ Len(listPoliciesForAgent(engIn.policies, engIn.request.agent_id,
                                engIn.request.skill_id)) = 1
    /\ engOut.policy_name = engIn.policies[2].name
    /\ engIn.policies[1].credential = engIn.request.credential_name
    /\ engIn.policies[1].name # engIn.policies[2].name

----------------------------------------------------------------------------
(* Claims about budgets and scoping through the request pipeline *)

PoliciesFor(c) == {i \in 1..Len(policies) : policies[i].credential = c}

\* C17: for a credential whose only policy has max_per_month = L, while every
\* logged entry is of the current month, the monthly spending recorded for
\* that credential is at most L.
C17_SpendingWithinLimit ==
    \A c \in CredNames :
        (/\ Cardinality(PoliciesFor(c)) = 1
         /\ \A k \in 1..Len(audit) : MonthOf(audit[k].timestamp) = MonthOf(now)) =>
            \A i \in PoliciesFor(c) : \A l \in policies[i].max_per_month :
                getMonthlySpending(audit, c, MonthOf(now)) <= l

\* C19: a request_credential from an agent that grant_to.agent_id of the only
\* policy for the requested credential does not list is answered denied, with
\* the reason that the agent is not granted access.
C19_UnauthorizedAgentReason ==
    (/\ resp.op = "request_credential"
     /\ Cardinality(PoliciesFor(resp.request.credential_name)) = 1
     /\ \A i \in PoliciesFor(resp.request.credential_name) :
           /\ policies[i].grant_agent # Unset
           /\ Wildcard \notin policies[i].grant_agent
           /\ resp.request.agent_id \notin policies[i].grant_agent
           /\ ~(policies[i].deny # Unset /\ resp.request.agent_id \in policies[i].deny)) =>
        /\ resp.status = "denied"
        /\ resp.reason = "agent not granted"

----------------------------------------------------------------------------
(* The loader alone: a parsed document is validated by PolicyFileSchema and *)
(* its policies replace the loader's map.                                   *)

MaxDocPolicies == 2     \* the entries of a document's policies list

\* a number of a document: whole, or whole + 1/2
Num(n) == [whole |-> n, half |-> FALSE]
Half(n) == [whole |-> n, half |-> TRUE]

\* z.number().positive()
positive(x) == x.whole > 0 \/ (x.whole = 0 /\ x.half)
\* positive that lets 0 through
positive_OrZero(x) == x.whole >= 0
\* z.number().int()
int(x) == ~x.half

\* an entry of the policies list as the document has it: the schema's keys
\* (grant_to says whether the key is there), and the keys the schema does not
\* name
RawBase ==
    [ name |-> "stripe", description |-> Undef, credential |-> "c1",
      grant_to |-> TRUE, grant_agent |-> {"a1"}, grant_skill |-> Unset,
      deny |-> Unset, actions |-> Unset,
      max_per_transaction |-> {}, max_per_month |-> {Num(2)}, currency |-> Undef,
      approval_threshold |-> {}, condition |-> Undef, scope |-> Undef, ttl |-> {},
      unknown |-> {} ]

RawPolicies ==
    { RawBase,
      [RawBase EXCEPT !.description = "second", !.ttl = {Num(1)},
                      !.approval_threshold = {Num(1)}],
      [RawBase EXCEPT !.name = "spare", !.credential = "c2",
                      !.max_per_transaction = {Num(1)}],
      [RawBase EXCEPT !.name = "typo", !.unknown = {"grant_too"}],
      [RawBase EXCEPT !.name = ""],
      [RawBase EXCEPT !.credential = ""],
      [RawBase EXCEPT !.grant_to = FALSE, !.grant_agent = Unset],
      [RawBase EXCEPT !.max_per_transaction = {Num(0)}],
      [RawBase EXCEPT !.max_per_month = {Num(-1)}],
      [RawBase EXCEPT !.approval_threshold = {Num(0)}],
      [RawBase EXCEPT !.ttl = {Num(0)}],
      [RawBase EXCEPT !.ttl = {Half(1)}] }

\* a version key holding the YAML number 1, not a string
NumberOne == "<number 1>"
Versions == {Undef, "1", "2", NumberOne}

RawLists == UNION {[1..n -> RawPolicies] : n \in 0..MaxDocPolicies}

\* a document: version (Undef when the key is missing), the policies list
\* (has_policies says whether the key is there), and the top-level keys the
\* schema does not name
Documents ==
    { d \in [ version : Versions, has_policies : BOOLEAN, policies : RawLists,
              unknown : {{}, {"polices"}} ] :
        ~d.has_policies => d.policies = <<>> }

\* PolicySchema that takes 0 for a positive number
PolicySchemaAccepts_ZeroOk(raw) ==
    /\ raw.name # "" /\ raw.credential # ""
    /\ raw.grant_to
    /\ \A x \in raw.max_per_transaction \cup raw.max_per_month
                   \cup raw.approval_threshold : positive_OrZero(x)
    /\ \A x \in raw.ttl : int(x) /\ positive_OrZero(x)

\* PolicySchema: what z.object checks of an entry; keys it does not name are
\* not looked at
PolicySchemaAccepts(raw) ==
    /\ raw.name # "" /\ raw.credential # ""
    /\ raw.grant_to
    /\ \A x \in raw.max_per_transaction \cup raw.max_per_month
                   \cup raw.approval_threshold : positive(x)
    /\ \A x \in raw.ttl : int(x) /\ positive(x)

\* the entry z.object returns: the schema's keys only
PolicySchemaOutput(raw) ==
    [ name |-> raw.name, credential |-> raw.credential,
      grant_agent |-> raw.grant_agent, grant_skill |-> raw.grant_skill,
      deny |-> raw.deny, actions |-> raw.actions,
      max_per_transaction |-> {x.whole : x \in raw.max_per_transaction},
      max_per_month |-> {x.whole : x \in raw.max_per_month},
      approval_threshold |-> {x.whole : x \in raw.approval_threshold},
      condition |-> raw.condition, scope |-> raw.scope,
      ttl |-> {x.whole : x \in raw.ttl},
      description |-> raw.description, currency |-> raw.currency ]

\* PolicyFileSchema.parse: version is any string, policies a list of entries
\* PolicySchema accepts
PolicyFileSchemaParse(doc) ==
    IF /\ doc.version \notin {Undef, NumberOne}
       /\ doc.has_policies
       /\ \A i \in 1..Len(doc.policies) : PolicySchemaAccepts(doc.policies[i])
    THEN [ok |-> TRUE,
          policies |-> [i \in 1..Len(doc.policies) |-> PolicySchemaOutput(doc.policies[i])]]
    ELSE [ok |-> FALSE, policies |-> <<>>]

\* Map.set(policy.name, policy): a new key goes last, a key already there
\* keeps its place and takes the new value
mapSet(held, policy) ==
    IF \E i \in 1..Len(held) : held[i].name = policy.name
    THEN [i \in 1..Len(held) |-> IF held[i].name = policy.name THEN policy ELSE held[i]]
    ELSE Append(held, policy)

RECURSIVE mapSetAll(_, _)
mapSetAll(held, list) ==
    IF list = <<>> THEN held
    ELSE mapSetAll(mapSet(held, Head(list)), Tail(list))

\* loadFromObject that clears the map before it validates
loadFromObject_ClearFirst(held, doc) ==
    LET validated == PolicyFileSchemaParse(doc)
    IN  IF validated.ok
        THEN [status |-> "ok", policies |-> mapSetAll(<<>>, validated.policies)]
        ELSE [status |-> "throws", policies |-> <<>>]

\* loadFromObject: the map after the call and whether the call returned
loadFromObject(held, doc) ==
    LET validated == PolicyFileSchemaParse(doc)
    IN  IF validated.ok
        THEN [status |-> "ok", policies |-> mapSetAll(<<>>, validated.policies)]
        ELSE [status |-> "throws", policies |-> held]

\* the loader before the call: new, or holding an earlier document; the call's
\* argument is in resp.request
LoaderInit ==
    /\ engIn = EngineIdleIn /\ engOut = Pending
    /\ now = 0 /\ policies \in {<<>>, DocStripe} /\ vault = VaultWith({}, Passphrase)
    /\ tokens = NoTokens /\ nextToken = 1 /\ issued = NoTokens
    /\ audit = <<>>
    /\ \E doc \in Documents : resp = [NoResp EXCEPT !.request = doc]

LoadFromObject ==
    /\ resp.op = "none"
    /\ LET r == loadFromObject(policies, resp.request)
       IN  /\ policies' = r.policies
           /\ resp' = [resp EXCEPT !.op = "loadFromObject", !.status = r.status,
                                   !.reason = IF r.status = "ok" THEN Undef
                                              ELSE "ValidationError"]
    /\ UNCHANGED <<engIn, engOut, now, vault, tokens, nextToken, issued, audit>>

\* listPolicies() of the loader as it is
ListLoaded ==
    /\ resp.op = "loadFromObject"
    /\ resp' = [resp EXCEPT !.op = "listPolicies",
                            !.summaries = listPolicies(policies)]
    /\ UNCHANGED <<engIn, engOut, now, policies, vault, tokens, nextToken, issued, audit>>

LoaderNext == LoadFromObject \/ ListLoaded

SpecLoader == LoaderInit /\ [][LoaderNext]_vars

----------------------------------------------------------------------------
(* Claims about the four tools together *)

Plaintexts == {vault.creds[n].plain : n \in DOMAIN vault.creds}

EntryStrings(e) ==
    { e.event, e.policy, e.agent_id, e.skill_id, e.purpose, e.credential_name,
      e.outcome, e.details.text, e.details.currency, e.details.details }
    \cup (IF e.scope = <<>> THEN {} ELSE {e.scope[2]})

SummaryStrings(sm) ==
    {sm.name, sm.description, sm.credential, sm.budget.currency}
    \cup (sm.actions \ Unset)

\* C25: a credential's plaintext value is in no listCredentials summary, in no
\* audit entry and in no tool response but the granted request_credential
\* response for that credential.
C25_PlaintextConfined ==
    /\ \A row \in listCredentials(vault).rows : row.name \notin Plaintexts
    /\ \A k \in 1..Len(audit) : EntryStrings(audit[k]) \cap Plaintexts = {}
    /\ {resp.status, resp.reason, resp.policy, resp.scope, resp.budget, resp.currency}
          \cap Plaintexts = {}
    /\ \A k \in 1..Len(resp.summaries) :
          SummaryStrings(resp.summaries[k]) \cap Plaintexts = {}
    /\ resp.credential_value # Undef =>
          /\ resp.op = "request_credential" /\ resp.status = "granted"
          /\ resp.request.credential_name \in DOMAIN vault.creds
          /\ resp.credential_value = vault.creds[resp.request.credential_name].plain

C25_Witness ==
    /\ resp.op = "request_credential" /\ resp.status = "granted"
    /\ resp.credential_value \in Plaintexts
    /\ Len(audit) = 2
    /\ audit[2].event = "credential_granted" /\ audit[2].token_id = resp.token_id
    /\ listCredentials(vault).rows # {}

ListRespChanged ==
    IF resp.op # "list_available_policies" THEN TRUE
    ELSE resp.request # resp'.request \/ resp.summaries # resp'.summaries

\* C26: list_available_policies returns, in order, one summary per policy of
\* listPoliciesForAgent(agent_id, skill_id) holding exactly name, description,
\* credential, actions, budget and ttl of that policy (no condition, deny or
\* scope), and the call changes no state.
C26_SummariesOnly ==
    [][ (resp'.op = "list_available_policies" /\ ListRespChanged) =>
            LET ps == listPoliciesForAgent(policies, resp'.request.agent_id,
                                           resp'.request.skill_id)
                sums == resp'.summaries
            IN  /\ Len(sums) = Len(ps)
                /\ \A i \in 1..Len(ps) :
                      /\ DOMAIN sums[i] = {"name", "description", "credential",
                                           "actions", "budget", "ttl"}
                      /\ sums[i].name = ps[i].name
                      /\ sums[i].description = ps[i].description
                      /\ sums[i].credential = ps[i].credential
                      /\ sums[i].actions = ps[i].actions
                      /\ sums[i].ttl = ps[i].ttl
                      /\ DOMAIN sums[i].budget =
                            {"max_per_transaction", "max_per_month", "currency"}
                      /\ sums[i].budget.max_per_transaction = ps[i].max_per_transaction
                      /\ sums[i].budget.max_per_month = ps[i].max_per_month
                /\ UNCHANGED <<now, policies, vault, tokens, nextToken, issued, audit>>
      ]_vars

C26_Witness ==
    /\ resp.op = "list_available_policies" /\ resp.request.agent_id = "a1"
    /\ Len(policies) = 2 /\ policies[1].deny = {"a1"}
    /\ policies[1].scope = "scopeA"
    /\ Len(resp.summaries) = 1
    /\ resp.summaries[1].name = "open"
    /\ resp.summaries[1].description = "open access"
    /\ resp.summaries[1].budget.max_per_month = {2}
    /\ Len(audit) > 0

BudgetRespChanged ==
    IF resp.op # "check_budget" THEN TRUE
    ELSE \/ resp.request # resp'.request
         \/ resp.spent_this_month # resp'.spent_this_month
         \/ resp.remaining # resp'.remaining

\* C27: check_budget reports on the named policy when policy_name is given and
\* else on the first policy in document order whose credential matches; it
\* answers an error when there is none, budget unlimited when that policy has
\* no max_per_month, and else spent_this_month = the credential's monthly
\* spending and remaining = max(0, max_per_month - spent), never negative; it
\* appends nothing to the audit log.
C27_CheckBudget ==
    [][ (resp'.op = "check_budget" /\ BudgetRespChanged) =>
            LET params == resp'.request
                named == {i \in 1..Len(policies) : policies[i].name = params.policy_name}
                forCred == {i \in 1..Len(policies) :
                                policies[i].credential = params.credential_name}
                chosen == IF params.policy_name # Undef THEN named
                          ELSE {i \in forCred : \A j \in forCred : i <= j}
                spent == getMonthlySpending(audit, params.credential_name, MonthOf(now))
            IN  /\ audit' = audit
                /\ chosen = {} => resp'.status = "error"
                /\ \A i \in chosen :
                      /\ resp'.status # "error"
                      /\ resp'.policy = policies[i].name
                      /\ policies[i].max_per_month = {} => resp'.budget = "unlimited"
                      /\ \A l \in policies[i].max_per_month :
                            /\ resp'.budget # "unlimited"
                            /\ resp'.spent_this_month = spent
                            /\ resp'.remaining = (IF l - spent > 0 THEN l - spent ELSE 0)
                            /\ resp'.remaining >= 0
      ]_vars

----------------------------------------------------------------------------
(* Claims about the vault *)

\* the step is a call of method op that ran: it left its response
VaultStep(op) == resp'.op = op /\ (resp' # resp \/ vault' # vault)

\* the step is the synchronous part of a call of op, not the resumption of a
\* suspended one
VaultCall(op) == VaultStep(op) /\ vault.pending \subseteq vault'.pending

\* the step resumes a suspended call of op
VaultResume(op) == resp'.op = op /\ vault'.pending # vault.pending
                      /\ vault'.pending \subseteq vault.pending

C23_MetaWrittenOnce ==
    [][ /\ vault.salt # Undef => vault'.salt = vault.salt
        /\ vault'.inits <= 1 ]_vars

\* C24: unlock on an initialized vault succeeds whatever the passphrase; get
\* of a credential stored under another key than the vault's fails with an
\* authentication error, and a value that get returns is the value added.
C24_WrongKey ==
    [][ /\ (VaultCall("unlock") /\ vault.salt # Undef /\ ~vault.closed) =>
              resp'.status = "pending"
        /\ VaultResume("unlock") =>
              /\ resp'.status = "ok"
              /\ \E call \in vault.pending \ vault'.pending :
                    vault'.key = deriveKey(call.pass, call.salt)
        /\ VaultStep("getCredential") =>
              LET n == resp'.request.name
              IN  /\ resp'.credential_value # Undef =>
                        /\ n \in DOMAIN vault.creds
                        /\ resp'.credential_value = vault.creds[n].plain
                  /\ ( /\ n \in DOMAIN vault.creds /\ ~vault.closed
                       /\ vault.key # NoKey /\ vault.key # vault.creds[n].key ) =>
                        /\ resp'.status = "throws"
                        /\ resp'.reason = "AuthenticationFailed"
                        /\ resp'.credential_value = Undef
      ]_vars

C24_Witness ==
    /\ resp.op = "getCredential" /\ resp.request.name = "c1"
    /\ resp.status = "throws" /\ resp.reason = "AuthenticationFailed"
    /\ vault.key = deriveKey("pass-2", Salt) /\ vault.opened
    /\ vault.creds["c1"].key = deriveKey(Passphrase, Salt)

----------------------------------------------------------------------------
(* Claims about the loader *)

Loaded == resp.op \in {"loadFromObject", "listPolicies"}

\* C28: a document with an unknown top-level key or an unknown key inside a
\* policy entry fails to load.
C28_UnknownKeysRejected ==
    ( /\ Loaded
      /\ \/ resp.request.unknown # {}
         \/ \E i \in 1..Len(resp.request.policies) :
               resp.request.policies[i].unknown # {} )
    => resp.status = "throws"

\* C29: a document whose version is not "1" fails to load.
C29_UnknownVersionRejected ==
    (Loaded /\ resp.request.version # "1") => resp.status = "throws"

\* the validation rules, read off a document's entry
BreaksRules(raw) ==
    \/ raw.name = "" \/ raw.credential = "" \/ ~raw.grant_to
    \/ \E x \in raw.max_per_transaction \cup raw.max_per_month
                   \cup raw.approval_threshold :
          ~(x.whole > 0 \/ (x.whole = 0 /\ x.half))
    \/ \E x \in raw.ttl : x.half \/ x.whole <= 0

\* C30: after a successful load every policy held has a non-empty name and
\* credential, a grant_to, positive max_per_transaction, max_per_month and
\* approval_threshold where present and a positive integer ttl where present;
\* a document with an entry breaking one of these rules, without a version or
\* without a policies list fails to load.
C30_ValidationRules ==
    Loaded =>
        /\ resp.status = "ok" =>
              \A i \in 1..Len(policies) :
                 \E j \in 1..Len(resp.request.policies) :
                    LET raw == resp.request.policies[j]
                    IN  /\ policies[i].name = raw.name /\ raw.name # ""
                        /\ policies[i].credential = raw.credential /\ raw.credential # ""
                        /\ raw.grant_to
                        /\ policies[i].grant_agent = raw.grant_agent
                        /\ \A f \in {"max_per_transaction", "max_per_month",
                                     "approval_threshold", "ttl"} :
                              /\ policies[i][f] = {x.whole : x \in raw[f]}
                              /\ \A x \in raw[f] : x.whole > 0 \/ (x.whole = 0 /\ x.half)
                        /\ \A x \in raw.ttl : ~x.half
        /\ ( \/ resp.request.version = Undef
             \/ ~resp.request.has_policies
             \/ \E j \in 1..Len(resp.request.policies) :
                   BreaksRules(resp.request.policies[j]) )
           => resp.status = "throws"

C30_Witness ==
    /\ resp.op = "loadFromObject" /\ resp.status = "ok"
    /\ Len(policies) = 2 /\ policies[1].name = "stripe" /\ policies[2].name = "spare"
    /\ policies[1].ttl = {1} /\ policies[1].approval_threshold = {1}
    /\ policies[2].max_per_transaction = {1}
    /\ resp.request.version = "1" /\ resp.request.unknown = {}

\* s is a subsequence of t: the entries of s are entries of t, in t's order
RECURSIVE IsSubsequence(_, _)
IsSubsequence(s, t) ==
    IF s = <<>> THEN TRUE
    ELSE IF t = <<>> THEN FALSE
    ELSE IF Head(s) = Head(t) THEN IsSubsequence(Tail(s), Tail(t))
    ELSE IsSubsequence(s, Tail(t))

\* C31: after a successful load of a document with policy list P,
\* listPolicies() is P, entry by entry and in P's order, and
\* listPoliciesForAgent is a subsequence of it.
C31_LoadPreservesDocument ==
    (Loaded /\ resp.status = "ok") =>
        LET P == resp.request.policies
        IN  /\ Len(listPolicies(policies)) = Len(P)
            /\ \A i \in 1..Len(P) : i <= Len(policies) =>
                  listPolicies(policies)[i] = PolicySchemaOutput(P[i])
            /\ \A a \in Agents :
                  IsSubsequence(listPoliciesForAgent(policies, a, Undef),
                                listPolicies(policies))

\* C39: a load that fails validation leaves the loader's policies as they
\* were (getPolicy, listPolicies and listPoliciesForAgent answer as before); a
\* load that succeeds holds policies of the new document only, one for each of
\* its names.
C39_FailedLoadKeeps ==
    [][ (resp.op = "none" /\ resp'.op = "loadFromObject") =>
            /\ resp'.status = "throws" =>
                  /\ listPolicies(policies') = listPolicies(policies)
                  /\ \A n \in {"stripe", "spare", "typo"} :
                        getPolicy(policies', n) = getPolicy(policies, n)
                  /\ \A a \in Agents :
                        listPoliciesForAgent(policies', a, Undef)
                           = listPoliciesForAgent(policies, a, Undef)
            /\ resp'.status = "ok" =>
                  LET P == resp'.request.policies
                  IN  /\ \A i \in 1..Len(policies') :
                            \E j \in 1..Len(P) : policies'[i] = PolicySchemaOutput(P[j])
                      /\ \A j \in 1..Len(P) :
                            \E i \in 1..Len(policies') : policies'[i].name = P[j].name
      ]_vars

C39_Witness ==
    /\ resp.op = "loadFromObject" /\ resp.status = "throws"
    /\ policies = DocStripe
    /\ resp.request.version = "1" /\ Len(resp.request.policies) = 2
    /\ resp.request.policies[1].name = "spare" /\ resp.request.policies[2].ttl = {Num(0)}

----------------------------------------------------------------------------
(* Claims about the token store *)

IsMarkStep ==
    /\ resp'.op = "markUsed"
    /\ \/ resp.op # "markUsed" \/ resp.token_id # resp'.token_id
       \/ resp.status # resp'.status \/ tokens' # tokens

\* C32: markUsed(id) on a token in the store sets used and returns true,
\* changes no other field and no other token, and a further call returns true
\* and changes nothing; on an absent token it returns false and changes
\* nothing; no step takes used from true to false.
C32_MarkUsedIdempotent ==
    [][ /\ IsMarkStep =>
              LET id == resp'.token_id
              IN  IF id \in DOMAIN tokens
                  THEN /\ resp'.status = "true"
                       /\ DOMAIN tokens' = DOMAIN tokens
                       /\ tokens'[id] = [tokens[id] EXCEPT !.used = TRUE]
                       /\ \A o \in DOMAIN tokens \ {id} : tokens'[o] = tokens[o]
                       /\ markUsedResult(tokens', id)
                       /\ markUsed(tokens', id) = tokens'
                  ELSE resp'.status = "false" /\ tokens' = tokens
        /\ \A id \in DOMAIN tokens \cap DOMAIN tokens' :
              tokens[id].used => tokens'[id].used
      ]_vars

C32_Witness ==
    /\ resp.op = "markUsed" /\ resp.status = "true" /\ resp.token_id = 1
    /\ 1 \in DOMAIN tokens /\ tokens[1].used
    /\ tokens[1].expires_at = issued[1].expires_at
    /\ now >= tokens[1].expires_at
    /\ 2 \in DOMAIN tokens /\ ~tokens[2].used

IsPurgeStep ==
    /\ resp'.op = "purgeExpired"
    /\ \/ resp.op # "purgeExpired" \/ resp.expires_at # resp'.expires_at
       \/ tokens' # tokens

IsSizeStep ==
    /\ resp'.op = "size"
    /\ \/ resp.op # "size" \/ resp.total # resp'.total \/ resp.at # resp'.at
       \/ tokens' # tokens

Unexpired(store, t) == {id \in DOMAIN store : t < store[id].expires_at}

\* C33: purgeExpired removes exactly the tokens with now >= expires_at, keeps
\* the others as they are and returns the number removed; a second call at the
\* same clock value removes nothing and returns 0; size is the number of
\* unexpired tokens.
C33_PurgeExact ==
    [][ /\ IsPurgeStep =>
              /\ DOMAIN tokens' = Unexpired(tokens, now)
              /\ \A id \in DOMAIN tokens' : tokens'[id] = tokens[id]
              /\ resp'.expires_at = Cardinality(DOMAIN tokens \ Unexpired(tokens, now))
              /\ purgeExpired(tokens', now') = tokens'
              /\ purgeExpiredCount(tokens', now') = 0
        /\ IsSizeStep => resp'.total = Cardinality(Unexpired(tokens, now))
      ]_vars

C33_Witness ==
    /\ resp.op = "purgeExpired" /\ resp.expires_at = 1
    /\ DOMAIN tokens = {2} /\ DOMAIN issued = {1, 2}
    /\ now = issued[1].expires_at /\ now < tokens[2].expires_at

----------------------------------------------------------------------------
(* Claims about the tool handlers and the budget *)

IsGrantStep ==
    /\ resp'.op = "request_credential" /\ resp'.status = "granted"
    /\ nextToken' # nextToken

\* C34: the token request_credential issues under policy P is stored with
\* used = false, issued_at = the time of the call and expires_at = issued_at +
\* P.ttl * 1000 ms (300 s when P has no ttl), and the granted response reports
\* the stored token's expires_at.
C34_TokenLifetime ==
    [][ IsGrantStep =>
            LET id == resp'.token_id
                P == {i \in 1..Len(policies) :
                         policies[i].name = tokens'[id].policy_name}
            IN  /\ id \notin DOMAIN tokens /\ id \in DOMAIN tokens'
                /\ ~tokens'[id].used
                /\ tokens'[id].issued_at = now
                /\ P # {}
                /\ \A i \in P :
                      /\ policies[i].credential = resp'.request.credential_name
                      /\ tokens'[id].expires_at = tokens'[id].issued_at
                            + (IF policies[i].ttl = {} THEN 300
                               ELSE Val(policies[i].ttl)) * 1000
                /\ resp'.expires_at = tokens'[id].expires_at
      ]_vars

C34_Witness ==
    /\ resp.op = "request_credential" /\ resp.status = "granted"
    /\ resp.token_id = 2 /\ DOMAIN issued = {1, 2}
    /\ issued[2].policy_name = "spare" /\ ~issued[2].used
    /\ issued[2].expires_at = issued[2].issued_at + 1000
    /\ resp.expires_at = issued[2].expires_at
    /\ issued[1].policy_name = "stripe"
    /\ issued[1].expires_at = issued[1].issued_at + 300 * 1000

\* C35: once close() has been called the vault holds no key in any later
\* state and no credential method succeeds, also when an initialize or unlock
\* call was suspended in key derivation at the time of the close.
C35_ClosedHoldsNoKey ==
    [][ /\ vault'.closed => vault'.key = NoKey
        /\ \A op \in {"addCredential", "getCredential", "listCredentials",
                      "removeCredential"} :
              (vault.closed /\ VaultStep(op)) => resp'.status = "throws"
      ]_vars

\* C40: whenever the vault is unlocked with the passphrase that was given to
\* initialize, every stored credential can be read: get returns the value it
\* was added with.
C40_ReadableWithInitPassphrase ==
    ( /\ vault.initPass # Undef /\ ~vault.closed
      /\ vault.key = deriveKey(vault.initPass, vault.salt) )
    => \A n \in DOMAIN vault.creds :
          /\ getCredential(vault, n).status = "ok"
          /\ getCredential(vault, n).value = vault.creds[n].plain

SpendingMonthsOfTools == {0, 1}

SpendingChanged ==
    \E c \in CredNames, m \in SpendingMonthsOfTools :
        getMonthlySpending(audit', c, m) # getMonthlySpending(audit, c, m)

\* the step is a report_usage call that carried an amount: it appended a
\* credential_used entry whose details are the JSON the handler builds from
\* the amount, not a string of the caller
ReportedWithAmount ==
    /\ resp'.op = "report_usage" /\ resp'.status = "recorded"
    /\ Len(audit') = Len(audit) + 1
    /\ audit'[Len(audit')].event = "credential_used"
    /\ audit'[Len(audit')].details.kind = "json"
    /\ audit'[Len(audit')].details.text = Undef

\* C36: the monthly spending of a credential changes only in a report_usage
\* call that carries an amount; request_credential, list_available_policies
\* and check_budget leave the monthly spending of every credential unchanged.
C36_SpendingFrame ==
    [][ SpendingChanged => ReportedWithAmount ]_vars

UsedEntries(id) ==
    {k \in 1..Len(audit) : audit[k].event = "credential_used" /\ audit[k].token_id = id}

\* C37: for every token id the audit log holds at most one credential_used
\* entry.
C37_UsedOnce ==
    \A id \in 1..MaxTokenId : Cardinality(UsedEntries(id)) <= 1

\* C38: the monthly spending of a credential in a month never decreases in a
\* tool call.
C38_SpendingMonotone ==
    [][ \A c \in CredNames, m \in SpendingMonthsOfTools :
            getMonthlySpending(audit', c, m) >= getMonthlySpending(audit, c, m)
      ]_vars

====
